---------------------------- MODULE Spec2Model ----------------------------
(***************************************************************************)
(* The rip/encode job pipeline of Handlebar (src/database.py): the sqlite  *)
(* store EncodeDatabase, the dispatcher WorkQueue, and the two worker      *)
(* threads RipThread and EncodeThread, which communicate through the store *)
(* and two threading.Event objects.                                        *)
(*                                                                         *)
(* Each statement that commits to the store or touches an Event or the     *)
(* display registry is one atomic step; a thread's position between two    *)
(* such statements is its pc.  Spec is the program run from an empty       *)
(* store, RestartSpec the program started on the store an earlier run      *)
(* left, and StoreSpec the store session of enqueue taken statement by     *)
(* statement on two connections.  HeadlessSpec is the program constructed  *)
(* without a display list, ApiSpec the store's status methods called with  *)
(* any argument, ConstructSpec the construction of WorkQueue on a store    *)
(* file in any condition, and ProgressSpec the two progress relays (the    *)
(* loop of EncodeThread.encode and media_factory.ProgressWrapper) fed with *)
(* the output of the external operation.  DisplaySpec is the display      *)
(* registry of Interface.DisplayList used by the UI thread, a second       *)
(* thread calling enqueue and a worker at once; DisplayLiveSpec adds that  *)
(* the UI thread keeps processing its events.                              *)
(* The start_time column (datetime.now()) is not modelled: nothing reads   *)
(* it.  Variables whose name starts with h_ are history variables: they    *)
(* record what happened and no action reads them to decide anything.       *)
(***************************************************************************)
EXTENDS Integers, Sequences, FiniteSets, Bags, TLC

VARIABLES
    table,          \* media_table: sequence of rows, row id = position (autoincrement)
    lookup,         \* media_lookup: media_filename (UNIQUE) -> media_id
    enabled,        \* WorkQueue.enabled
    rip_ready,      \* threading.Event WorkQueue.rip_ready (TRUE = set)
    encode_ready,   \* threading.Event WorkQueue.encode_ready
    caller,         \* the thread calling WorkQueue.enqueue / set_enabled
    rip,            \* RipThread: pc and the locals of run()
    enc,            \* EncodeThread: pc and the locals of run()
    display_mapping, \* DisplayList.display_mapping: the media names that have a display
    connections,    \* per worker thread: the bag of displays (by media name) whose
                    \* set_status and set_progress slots are connected to its
                    \* signals; a display connected twice is in it twice
    h_lastSetEnabled, \* argument of the last set_enabled call, "none" before the first
    h_everEnabled,  \* set_enabled(True) has been called at least once
    h_submitted,    \* media_filename -> do_rip of the first enqueue call for it
    h_jobs,         \* per row id: the statuses entered in order, the number of rip and
                    \* encode invocations, and whether one of them failed
    incomplete,     \* the list restart_incomplete_jobs collected and printed
    h_leftover,     \* the row ids the store held when WorkQueue was constructed
    h_duplicate,    \* the enqueue call in progress found an item of the same file name
    h_storeFault,   \* the workers ("rip", "enc") that met a store fault
    sessions,       \* per thread running enqueue's store session statement by
                    \* statement: its position, its call, and the rows its
                    \* connection has inserted and not committed
    display_list,   \* WorkQueue.display_list, handed on to both workers: TRUE for
                    \* a DisplayList object, FALSE for the default None
    h_raised,       \* the exceptions raised so far outside the store, by name
    api,            \* a direct call of EncodeDatabase.get_with_status or
                    \* set_status: its argument, its outcome, and the number of
                    \* SQL statements it has executed
    schema,         \* the tables of the store file (sqlite_master), by name
    queue,          \* the WorkQueue objects constructed on the store so far
    relay,          \* EncodeThread.encode reading the encoder's stdout: the
                    \* bytes not yet read, the list 'line', and the bytes read
    wrapper,        \* the ProgressWrapper of a rip: the texts its stream is yet
                    \* to write and flush, and its fields text and percent
    progress,       \* the values delivered through progress_change during
                    \* the stage execution in progress, in order
    db,             \* per worker thread and per function (get_work, run): the
                    \* EncodeDatabase object bound to its local 'db'
    ui,             \* the DisplayList with its displays as objects: the list
                    \* 'displays', the values of display_mapping, and the
                    \* init_display events posted to the UI thread
    threads         \* the threads that call getDisplay / createDisplay: their
                    \* position, arguments, ready_event and the display obtained

vars == <<table, lookup, enabled, rip_ready, encode_ready, caller, rip, enc,
          display_mapping, connections,
          h_lastSetEnabled, h_everEnabled, h_submitted, h_jobs,
          incomplete, h_leftover, h_duplicate, h_storeFault, sessions,
          display_list, h_raised, api, schema, queue, relay, wrapper, progress,
          db, ui, threads>>

(* The state outside the dispatch of jobs, which the caller's and the     *)
(* workers' steps of an application with a display list leave alone.      *)
aside == <<display_list, h_raised, api, schema, queue, relay, wrapper, progress, db,
           ui, threads>>

(* The same without the workers' EncodeDatabase objects, for the steps    *)
(* that open or close a store session.                                    *)
beside == <<display_list, h_raised, api, schema, queue, relay, wrapper, progress,
            ui, threads>>

(* The variables of the dispatcher and its two workers. *)
dispatch ==
    <<enabled, rip_ready, encode_ready, caller, rip, enc, display_mapping, connections,
      h_lastSetEnabled, h_everEnabled, h_submitted, incomplete, h_leftover,
      h_duplicate, h_storeFault, db, ui, threads>>

-----------------------------------------------------------------------------
(* class EncodeStatus(IntEnum) *)
Error == -1
Stopped == 0
Pending_Rip == 1
Ripping == 2
Pending_Encode == 3
Encoding == 4
Finished == 5

EncodeStatus == {Error, Stopped, Pending_Rip, Ripping, Pending_Encode, Encoding, Finished}

(* Bound of the model: the number of rows the store may hold. *)
MaxJobs == 2

None == [none |-> TRUE]
NoWork == 0

-----------------------------------------------------------------------------
(* Media: file_name is the file's name, or the volume name for a drive.   *)
(* _format_media_name strips the extension (os.path.splitext) and         *)
(* title-cases: "dvd_a" and "dvd_a.iso" both give "Dvd A".                *)
splitext(file_name) ==
    CASE file_name = "dvd_a" -> "dvd_a"
      [] file_name = "dvd_a.iso" -> "dvd_a"
      [] file_name = "dvd_b" -> "dvd_b"
      [] file_name = "dvd_b.iso" -> "dvd_b"

_format_media_name(file_name) ==
    CASE splitext(file_name) = "dvd_a" -> "Dvd A"
      [] splitext(file_name) = "dvd_b" -> "Dvd B"

Media(file_name, source_type) ==
    [file_name |-> file_name,
     media_name |-> _format_media_name(file_name),
     source_type |-> source_type]

(* The enqueue calls made: a disc in a drive to rip and encode (what the  *)
(* presentation layer passes: do_rip is source_type == 'drive'), the same *)
(* disc again with another output path and title number to encode        *)
(* directly, a second disc, and an image file to encode.  The image file *)
(* has the media name of the first disc.                                 *)
EnqueueInputs ==
    {[media |-> Media("dvd_a", "drive"), output_filepath |-> "out1.mkv",
      title_number |-> 1, do_rip |-> TRUE],
     [media |-> Media("dvd_a", "drive"), output_filepath |-> "out2.mkv",
      title_number |-> 2, do_rip |-> FALSE],
     [media |-> Media("dvd_b", "drive"), output_filepath |-> "out1.mkv",
      title_number |-> 1, do_rip |-> TRUE],
     [media |-> Media("dvd_a.iso", "file"), output_filepath |-> "out1.mkv",
      title_number |-> 1, do_rip |-> FALSE]}

(* RipThread.run: temp_file = splitext(media.file_name)[0] + '.iso' *)
temp_file(media) ==
    CASE splitext(media.file_name) = "dvd_a" -> "dvd_a.iso"
      [] splitext(media.file_name) = "dvd_b" -> "dvd_b.iso"

(* MediaFactory.read_media_from_file: Media(filepath, ..., source_type='file') *)
read_media_from_file(filepath) == Media(filepath, "file")

-----------------------------------------------------------------------------
(* EncodeDatabase *)

RowIds == 1..Len(table)

(* Faulty variant of get_with_name: the lookup never finds the name. *)
get_with_name_NotFound(media_filename) == None

get_with_name(media_filename) ==
    IF media_filename \in DOMAIN lookup THEN table[lookup[media_filename]] ELSE None

(* Faulty variant of add_entry_row: the encode_status argument is ignored
   and the default used. *)
add_entry_row_DefaultStatus(media, output_filepath, title_number, encode_status) ==
    [id |-> Len(table) + 1, media |-> media, output_filepath |-> output_filepath,
     title_number |-> title_number, encode_status |-> Pending_Rip]

add_entry_row(media, output_filepath, title_number, encode_status) ==
    [id |-> Len(table) + 1, media |-> media, output_filepath |-> output_filepath,
     title_number |-> title_number, encode_status |-> encode_status]

RECURSIVE SelectIds(_, _)
SelectIds(i, encode_status) ==
    IF i > Len(table) THEN <<>>
    ELSE IF table[i].encode_status = encode_status
         THEN <<i>> \o SelectIds(i + 1, encode_status)
         ELSE SelectIds(i + 1, encode_status)

RECURSIVE Reverse(_)
Reverse(seq) == IF seq = <<>> THEN <<>> ELSE Reverse(Tail(seq)) \o <<Head(seq)>>

(* Faulty variant of get_with_status: the Finished rows are selected as   *)
(* well, so that a worker claims an item that is done.                    *)
get_with_status_AlsoFinished(encode_status) ==
    SelectIds(1, encode_status) \o SelectIds(1, Finished)

(* Faulty variant of get_with_status: the rows come newest first. *)
get_with_status_NewestFirst(encode_status) == Reverse(SelectIds(1, encode_status))

(* Faulty variant of get_with_status: the rows of the next status (the    *)
(* stage's in-progress status) are selected as well.                      *)
get_with_status_OrInProgress(encode_status) ==
    SelectIds(1, encode_status) \o SelectIds(1, encode_status + 1)

(* SELECT * FROM media_table WHERE encode_status=:status, in rowid order;  *)
(* the callers use only the row id and the first four columns.            *)
get_with_status(encode_status) == SelectIds(1, encode_status)

set_status(row_id, encode_status) ==
    [table EXCEPT ![row_id].encode_status = encode_status]

update_media(row_id, updated_media) ==
    [table EXCEPT ![row_id].media = updated_media]

-----------------------------------------------------------------------------
(* WorkQueue.restart_incomplete_jobs: the list it collects and prints.    *)
restart_incomplete_jobs ==
    get_with_status(Pending_Rip) \o get_with_status(Pending_Encode)

Range(seq) == {seq[i] : i \in DOMAIN seq}

-----------------------------------------------------------------------------
(* History bookkeeping (not program state). *)
NewJobHistory(encode_status) ==
    [entries |-> <<encode_status>>, rips |-> 0, encs |-> 0,
     rip_failed |-> FALSE, enc_failed |-> FALSE]

Entered(row_id, encode_status) ==
    [h_jobs EXCEPT ![row_id].entries = Append(@, encode_status)]

-----------------------------------------------------------------------------
(* The threads that may run enqueue's store session at the same time, and *)
(* a session that is not open.                                            *)
Clients == {"a", "b"}

SessionClosed == [pc |-> "closed", call |-> None, pending |-> <<>>]

(* The objects a caller may pass as the encode_status argument: members   *)
(* of the enumeration (instances of EncodeStatus), plain integers (one    *)
(* that equals a member's value and one that equals none) and None.       *)
StatusArguments ==
    [class : {"EncodeStatus"}, value : EncodeStatus]
    \cup {[class |-> "int", value |-> Pending_Rip],
          [class |-> "int", value |-> Finished + 2],
          [class |-> "NoneType", value |-> 0]}

(* isinstance(encode_status, EncodeStatus) *)
isinstance(object, classinfo) == object.class = classinfo

ApiIdle == [pc |-> "idle", op |-> "", arg |-> None, executed |-> 0, rows |-> <<>>]

(* construct_db, lines 55-68: the three tables of the schema. *)
Tables == {"media_table", "media_lookup", "encode_status"}

(* verify_db, lines 41-51: the lookup of media_lookup in sqlite_master is *)
(* executed (line 46) but its result is never fetched; only media_table   *)
(* and encode_status are tested.                                          *)
verify_db(tables) == "media_table" \in tables /\ "encode_status" \in tables

(* construct_db, lines 55-68: three CREATE TABLE statements in this       *)
(* order, none with IF NOT EXISTS.  A CREATE TABLE of a table that exists *)
(* raises sqlite3.OperationalError; a CREATE TABLE is not part of a       *)
(* transaction of the sqlite3 module, so the tables created before the    *)
(* one that raised stay.                                                  *)
CreateOrder == <<"media_table", "media_lookup", "encode_status">>

RECURSIVE create_tables(_, _)
create_tables(tables, i) ==
    IF i > Len(CreateOrder) THEN [schema |-> tables, raised |-> FALSE]
    ELSE IF CreateOrder[i] \in tables THEN [schema |-> tables, raised |-> TRUE]
    ELSE create_tables(tables \cup {CreateOrder[i]}, i + 1)

construct_db(tables) == create_tables(tables, 1)

(* No encoder process is being read and no rip stream is being written. *)
RelayIdle == [pc |-> "idle", stdout |-> <<>>, line |-> <<>>, h_read |-> <<>>]

WrapperIdle == [pc |-> "idle", calls |-> <<>>, text |-> <<>>, percent |-> 0]

(* handlebar.py, line 25: WorkQueue is constructed with the display       *)
(* list of the main window (Interface.queueDisplay, a DisplayList).       *)
(* Nothing has been raised and no direct store call is in progress. *)
(* The threads that use the DisplayList: the UI thread, which constructs  *)
(* it (DisplayList.ui_thread), runs the event loop and the enqueue calls  *)
(* of the presentation layer; another thread calling enqueue; a worker    *)
(* looking a display up.                                                  *)
DisplayThreads == {"ui_thread", "other", "worker"}

DisplayNames == {"Dvd A", "Dvd B"}

(* getDisplay's 'return None'; a display is the position of its item in   *)
(* the QListWidget 'displays'.                                            *)
NoDisplay == 0

ThreadIdle ==
    [pc |-> "idle", media_name |-> "", ready_event |-> FALSE,
     display |-> NoDisplay, calls |-> 0, h_created |-> FALSE]

(* DisplayList.__init__: no display, display_mapping = {} *)
DisplayList ==
    [displays |-> <<>>,
     display_mapping |-> [media_name \in DisplayNames |-> NoDisplay],
     events |-> <<>>]

(* The local 'db' of a function of a worker: "unbound" before the first  *)
(* 'with EncodeDatabase(...) as db' and after the function has returned   *)
(* (the object is released with the frame and its connection with it);    *)
(* "open" inside the with block (__init__, lines 33-39: connection and    *)
(* cursor open); "cursor_closed" after the block, while the local is      *)
(* still bound: __exit__ (lines 30-31) closes the cursor self.db and      *)
(* leaves self.connection open.                                           *)
NoDatabase ==
    [rip |-> [get_work |-> "unbound", run |-> "unbound"],
     enc |-> [get_work |-> "unbound", run |-> "unbound"]]

(* with EncodeDatabase(self.db_path) as db: a new object is bound to the  *)
(* local, the object bound before is released.                            *)
__enter__(thread, function) == [db EXCEPT ![thread][function] = "open"]

(* The end of the with block in a function that goes on running. *)
__exit__(thread, function) == [db EXCEPT ![thread][function] = "cursor_closed"]

(* The end of the with block by a return statement: __exit__, then the    *)
(* frame and the object are released.                                     *)
return(thread, function) == [db EXCEPT ![thread][function] = "unbound"]

NoCalls ==
    /\ db = NoDatabase
    /\ ui = DisplayList
    /\ threads = [thread \in DisplayThreads |-> ThreadIdle]
    /\ h_raised = {}
    /\ api = ApiIdle
    /\ relay = RelayIdle
    /\ wrapper = WrapperIdle
    /\ progress = <<>>

(* WorkQueue.__init__, lines 162-165, on a new store file: verify_db      *)
(* finds nothing and construct_db creates the three tables.               *)
Constructed ==
    /\ schema = Tables
    /\ queue = [constructions |-> "once", created |-> TRUE, alive |-> TRUE]

AsideInit ==
    /\ display_list = TRUE
    /\ NoCalls
    /\ Constructed

Init ==
    /\ table = <<>>
    /\ lookup = <<>>
    /\ enabled = FALSE
    /\ rip_ready = FALSE
    /\ encode_ready = FALSE
    /\ caller = [pc |-> "idle", media |-> None, do_rip |-> FALSE]
    /\ rip = [pc |-> "wait", row_id |-> NoWork, media |-> None]
    /\ enc = [pc |-> "wait", row_id |-> NoWork, exit_ok |-> TRUE]
    /\ h_lastSetEnabled = "none"
    /\ h_everEnabled = FALSE
    /\ h_submitted = <<>>
    /\ h_jobs = <<>>
    /\ incomplete = restart_incomplete_jobs
    /\ h_leftover = {}
    /\ h_duplicate = FALSE
    /\ h_storeFault = {}
    /\ display_mapping = {}
    /\ connections = [rip |-> EmptyBag, enc |-> EmptyBag]
    /\ sessions = [client \in Clients |-> SessionClosed]
    /\ AsideInit

(* WorkQueue constructed on the store an earlier run of the program left: *)
(* one item, enqueued as the disc dvd_a, where the pipeline can leave it: *)
(* waiting for or in the rip stage with its drive source, or ripped to    *)
(* its image file (the lookup row keeps the name the item was enqueued    *)
(* under) and waiting for, in, or through the encode stage.               *)
LeftoverStatuses == {Pending_Rip, Ripping, Pending_Encode, Encoding, Finished}

LeftoverRow(encode_status) ==
    LET disc == Media("dvd_a", "drive")
    IN [id |-> 1,
        media |-> IF encode_status \in {Pending_Rip, Ripping}
                  THEN disc
                  ELSE read_media_from_file(temp_file(disc)),
        output_filepath |-> "out1.mkv",
        title_number |-> 1,
        encode_status |-> encode_status]

RestartInit ==
    /\ \E encode_status \in LeftoverStatuses :
          /\ table = <<LeftoverRow(encode_status)>>
          /\ lookup = ("dvd_a" :> 1)
          /\ h_jobs = <<NewJobHistory(encode_status)>>
          /\ h_leftover = {1}
    /\ enabled = FALSE
    /\ rip_ready = FALSE
    /\ encode_ready = FALSE
    /\ caller = [pc |-> "idle", media |-> None, do_rip |-> FALSE]
    /\ rip = [pc |-> "wait", row_id |-> NoWork, media |-> None]
    /\ enc = [pc |-> "wait", row_id |-> NoWork, exit_ok |-> TRUE]
    /\ h_lastSetEnabled = "none"
    /\ h_everEnabled = FALSE
    /\ h_submitted = <<>>
    /\ incomplete = restart_incomplete_jobs
    /\ h_duplicate = FALSE
    /\ h_storeFault = {}
    /\ display_mapping = {}
    /\ connections = [rip |-> EmptyBag, enc |-> EmptyBag]
    /\ sessions = [client \in Clients |-> SessionClosed]
    /\ AsideInit

-----------------------------------------------------------------------------
(* WorkQueue: the calling thread.  enqueue and set_enabled are called     *)
(* from one thread (the UI thread), so a new call starts only when the    *)
(* previous one has returned.                                             *)

(* Faulty variant of set_enabled: both wake signals follow the flag. *)
set_enabled_BothSignals(is_enabled) ==
    /\ caller.pc = "idle"
    /\ enabled' = is_enabled
    /\ encode_ready' = is_enabled
    /\ rip_ready' = is_enabled
    /\ h_lastSetEnabled' = IF is_enabled THEN "True" ELSE "False"
    /\ h_everEnabled' = (h_everEnabled \/ is_enabled)
    /\ UNCHANGED <<table, lookup, caller, rip, enc, h_submitted, h_jobs,
                   incomplete, h_leftover, h_duplicate, h_storeFault,
                   display_mapping, connections, sessions, aside>>

set_enabled(is_enabled) ==
    /\ caller.pc = "idle"
    /\ enabled' = is_enabled
    /\ encode_ready' = is_enabled
    /\ h_lastSetEnabled' = IF is_enabled THEN "True" ELSE "False"
    /\ h_everEnabled' = (h_everEnabled \/ is_enabled)
    /\ UNCHANGED <<table, lookup, rip_ready, caller, rip, enc, h_submitted, h_jobs,
                   incomplete, h_leftover, h_duplicate, h_storeFault,
                   display_mapping, connections, sessions, aside>>

(* enqueue, lines 210-218: the store session. *)
enqueue(media, output_filepath, title_number, do_rip) ==
    LET new_status == IF do_rip THEN Pending_Rip ELSE Pending_Encode
        row == add_entry_row(media, output_filepath, title_number, new_status)
    IN /\ caller.pc = "idle"
       /\ queue.alive
       /\ "media_lookup" \in schema
       /\ IF get_with_name(media.file_name) = None
          THEN /\ Len(table) < MaxJobs
               /\ table' = Append(table, row)
               /\ lookup' = lookup @@ (media.file_name :> row.id)
               /\ h_jobs' = Append(h_jobs, NewJobHistory(row.encode_status))
          ELSE UNCHANGED <<table, lookup, h_jobs>>
       /\ h_submitted' = IF media.file_name \in DOMAIN h_submitted
                         THEN h_submitted
                         ELSE h_submitted @@ (media.file_name :> do_rip)
       /\ caller' = [pc |-> "display", media |-> media, do_rip |-> do_rip]
       /\ h_duplicate' = (get_with_name(media.file_name) # None)
       /\ UNCHANGED <<enabled, rip_ready, encode_ready, rip, enc,
                      h_lastSetEnabled, h_everEnabled, incomplete, h_leftover,
                      h_storeFault,
                   display_mapping, connections, sessions, aside>>

(* enqueue, lines 220-221: create the item's display unless one is        *)
(* registered under its media name (DisplayList.createDisplay runs        *)
(* _initDisplay, which registers the new display).                        *)
enqueue_display ==
    /\ caller.pc = "display"
    /\ display_list
    /\ display_mapping' = IF caller.media.media_name \in display_mapping
                          THEN display_mapping
                          ELSE display_mapping \cup {caller.media.media_name}
    /\ caller' = [caller EXCEPT !.pc = "signal"]
    /\ UNCHANGED <<table, lookup, enabled, rip_ready, encode_ready, rip, enc,
                   h_lastSetEnabled, h_everEnabled, h_submitted, h_jobs,
                   incomplete, h_leftover, h_duplicate, h_storeFault, connections, sessions, aside>>

(* enqueue, line 220, without a display list: self.display_list is None   *)
(* and None.getDisplay raises AttributeError.  The item is in the store   *)
(* by then; the call ends before lines 223-227, so no signal is set.      *)
enqueue_display_None ==
    /\ caller.pc = "display"
    /\ ~display_list
    /\ h_raised' = h_raised \cup {"AttributeError"}
    /\ caller' = [pc |-> "idle", media |-> None, do_rip |-> FALSE]
    /\ h_duplicate' = FALSE
    /\ UNCHANGED <<table, lookup, enabled, rip_ready, encode_ready, rip, enc,
                   h_lastSetEnabled, h_everEnabled, h_submitted, h_jobs,
                   incomplete, h_leftover, h_storeFault,
                   display_mapping, connections, sessions, display_list, api,
                   schema, queue, relay, wrapper, progress, db,
                   ui, threads>>

(* Faulty variant of enqueue_signal: the stage's worker is woken whether  *)
(* or not the dispatcher is enabled.                                      *)
enqueue_signal_Always ==
    /\ caller.pc = "signal"
    /\ rip_ready' = IF caller.do_rip THEN TRUE ELSE rip_ready
    /\ encode_ready' = IF ~caller.do_rip THEN TRUE ELSE encode_ready
    /\ caller' = [pc |-> "idle", media |-> None, do_rip |-> FALSE]
    /\ h_duplicate' = FALSE
    /\ UNCHANGED <<table, lookup, enabled, rip, enc,
                   h_lastSetEnabled, h_everEnabled, h_submitted, h_jobs,
                   incomplete, h_leftover, h_storeFault,
                   display_mapping, connections, sessions, aside>>

(* Faulty variant of enqueue_signal: no signal after a duplicate call. *)
enqueue_signal_NewOnly ==
    /\ caller.pc = "signal"
    /\ rip_ready' = IF enabled /\ caller.do_rip /\ ~h_duplicate THEN TRUE ELSE rip_ready
    /\ encode_ready' = IF enabled /\ ~caller.do_rip /\ ~h_duplicate
                       THEN TRUE ELSE encode_ready
    /\ caller' = [pc |-> "idle", media |-> None, do_rip |-> FALSE]
    /\ h_duplicate' = FALSE
    /\ UNCHANGED <<table, lookup, enabled, rip, enc,
                   h_lastSetEnabled, h_everEnabled, h_submitted, h_jobs,
                   incomplete, h_leftover, h_storeFault,
                   display_mapping, connections, sessions, aside>>

(* enqueue, lines 223-227: wake the stage's worker if enabled. *)
enqueue_signal ==
    /\ caller.pc = "signal"
    /\ rip_ready' = IF enabled /\ caller.do_rip THEN TRUE ELSE rip_ready
    /\ encode_ready' = IF enabled /\ ~caller.do_rip THEN TRUE ELSE encode_ready
    /\ caller' = [pc |-> "idle", media |-> None, do_rip |-> FALSE]
    /\ h_duplicate' = FALSE
    /\ UNCHANGED <<table, lookup, enabled, rip, enc,
                   h_lastSetEnabled, h_everEnabled, h_submitted, h_jobs,
                   incomplete, h_leftover, h_storeFault,
                   display_mapping, connections, sessions, aside>>

-----------------------------------------------------------------------------
(* run() of both threads, after get_work returned an item:                *)
(*   display = self.display_list.getDisplay(media.media_name)             *)
(*   if display: self.status_change.connect(display.set_status) ...       *)
(* A connection is added on every iteration and never removed.  The       *)
(* lookup follows the commit of get_work's set_status with no store or    *)
(* Event access in between, so it is part of the claim step.              *)
EncodeDisplay(media_name) == [media_name |-> media_name]

getDisplay(media_name) ==
    IF media_name \in display_mapping THEN EncodeDisplay(media_name) ELSE None

connect(connected, media_name) ==
    IF display_list /\ getDisplay(media_name) # None
    THEN connected (+) SetToBag({media_name})
    ELSE connected

(* RipThread *)

RipIdle == [pc |-> "wait", row_id |-> NoWork, media |-> None]

(* self.rip_ready.wait() *)
RipWait ==
    /\ rip.pc = "wait"
    /\ rip_ready
    /\ rip' = [rip EXCEPT !.pc = "get_work"]
    /\ UNCHANGED <<table, lookup, enabled, rip_ready, encode_ready, caller, enc,
                   h_lastSetEnabled, h_everEnabled, h_submitted, h_jobs,
                   incomplete, h_leftover, h_duplicate, h_storeFault,
                   display_mapping, connections, sessions, aside>>

(* get_work: pending = db.get_with_status(Pending_Rip) *)
RipGetWork ==
    LET pending == get_with_status(Pending_Rip)
    IN /\ rip.pc = "get_work"
       /\ rip' = IF Len(pending) = 0
                 THEN [rip EXCEPT !.pc = "clear"]
                 ELSE [pc |-> "claim", row_id |-> pending[1],
                       media |-> table[pending[1]].media]
       /\ db' = __enter__("rip", "get_work")
       /\ UNCHANGED <<table, lookup, enabled, rip_ready, encode_ready, caller, enc,
                      h_lastSetEnabled, h_everEnabled, h_submitted, h_jobs,
                   incomplete, h_leftover, h_duplicate, h_storeFault,
                   display_mapping, connections, sessions, beside>>

(* get_work: self.rip_ready.clear(); return None; run(): continue *)
RipClear ==
    /\ rip.pc = "clear"
    /\ rip_ready' = FALSE
    /\ rip' = RipIdle
    /\ db' = return("rip", "get_work")
    /\ UNCHANGED <<table, lookup, enabled, encode_ready, caller, enc,
                   h_lastSetEnabled, h_everEnabled, h_submitted, h_jobs,
                   incomplete, h_leftover, h_duplicate, h_storeFault,
                   display_mapping, connections, sessions, beside>>

(* get_work: db.set_status(pending[0][0], EncodeStatus.Ripping) *)
RipClaim ==
    /\ rip.pc = "claim"
    /\ table' = set_status(rip.row_id, Ripping)
    /\ h_jobs' = Entered(rip.row_id, Ripping)
    /\ connections' = [connections EXCEPT !.rip = connect(@, rip.media.media_name)]
    /\ rip' = [rip EXCEPT !.pc = "save_to_file"]
    /\ db' = return("rip", "get_work")
    /\ UNCHANGED <<lookup, enabled, rip_ready, encode_ready, caller, enc,
                   h_lastSetEnabled, h_everEnabled, h_submitted,
                   incomplete, h_leftover, h_duplicate, h_storeFault,
                   display_mapping, sessions, beside>>

(* DVDHandler.save_to_file returns: only possible for a drive source. *)
RipSaveOk ==
    /\ rip.pc = "save_to_file"
    /\ rip.media.source_type = "drive"
    /\ h_jobs' = [h_jobs EXCEPT ![rip.row_id].rips = @ + 1]
    /\ rip' = [rip EXCEPT !.pc = "update_media"]
    /\ UNCHANGED <<table, lookup, enabled, rip_ready, encode_ready, caller, enc,
                   h_lastSetEnabled, h_everEnabled, h_submitted,
                   incomplete, h_leftover, h_duplicate, h_storeFault,
                   display_mapping, connections, sessions, aside>>

(* Faulty variant of RipSaveFail: the exception is caught, the item is
   left as it is and run() goes back to waiting. *)
RipSaveFail_Abandons ==
    /\ rip.pc = "save_to_file"
    /\ h_jobs' = [h_jobs EXCEPT ![rip.row_id].rips = @ + 1,
                                ![rip.row_id].rip_failed = TRUE]
    /\ rip' = RipIdle
    /\ UNCHANGED <<table, lookup, enabled, rip_ready, encode_ready, caller, enc,
                   h_lastSetEnabled, h_everEnabled, h_submitted,
                   incomplete, h_leftover, h_duplicate, h_storeFault,
                   display_mapping, connections, sessions, aside>>

(* Faulty variant of RipSaveFail: the exception is swallowed and run()
   goes on as after success. *)
RipSaveFail_Swallowed ==
    /\ rip.pc = "save_to_file"
    /\ h_jobs' = [h_jobs EXCEPT ![rip.row_id].rips = @ + 1,
                                ![rip.row_id].rip_failed = TRUE]
    /\ rip' = [rip EXCEPT !.pc = "update_media"]
    /\ UNCHANGED <<table, lookup, enabled, rip_ready, encode_ready, caller, enc,
                   h_lastSetEnabled, h_everEnabled, h_submitted,
                   incomplete, h_leftover, h_duplicate, h_storeFault,
                   display_mapping, connections, sessions, aside>>

(* DVDHandler.save_to_file raises (RuntimeError for a source that is not  *)
(* a drive, an I/O error otherwise).  run() has no handler: the exception *)
(* leaves run() and the thread ends.                                      *)
RipSaveFail ==
    /\ rip.pc = "save_to_file"
    /\ h_jobs' = [h_jobs EXCEPT ![rip.row_id].rips = @ + 1,
                                ![rip.row_id].rip_failed = TRUE]
    /\ rip' = [rip EXCEPT !.pc = "dead"]
    /\ UNCHANGED <<table, lookup, enabled, rip_ready, encode_ready, caller, enc,
                   h_lastSetEnabled, h_everEnabled, h_submitted,
                   incomplete, h_leftover, h_duplicate, h_storeFault,
                   display_mapping, connections, sessions, aside>>

(* Faulty variant of RipUpdateMedia: the row keeps its drive source. *)
RipUpdateMedia_Skipped ==
    /\ rip.pc = "update_media"
    /\ rip' = [rip EXCEPT !.pc = "set_status"]
    /\ db' = __enter__("rip", "run")
    /\ UNCHANGED <<table, lookup, enabled, rip_ready, encode_ready, caller, enc,
                   h_lastSetEnabled, h_everEnabled, h_submitted, h_jobs,
                   incomplete, h_leftover, h_duplicate, h_storeFault,
                   display_mapping, connections, sessions, beside>>

(* run(), lines 269-274: the ripped image replaces the row's media. *)
RipUpdateMedia ==
    LET ripped_media == [read_media_from_file(temp_file(rip.media))
                            EXCEPT !.media_name = rip.media.media_name]
    IN /\ rip.pc = "update_media"
       /\ table' = update_media(rip.row_id, ripped_media)
       /\ rip' = [rip EXCEPT !.pc = "set_status"]
       /\ db' = __enter__("rip", "run")
       /\ UNCHANGED <<lookup, enabled, rip_ready, encode_ready, caller, enc,
                      h_lastSetEnabled, h_everEnabled, h_submitted, h_jobs,
                   incomplete, h_leftover, h_duplicate, h_storeFault,
                   display_mapping, connections, sessions, beside>>

(* Faulty variant of RipSetPendingEncode: the wrong member of
   EncodeStatus is written after the rip. *)
RipSetPendingEncode_Finished ==
    /\ rip.pc = "set_status"
    /\ table' = set_status(rip.row_id, Finished)
    /\ h_jobs' = Entered(rip.row_id, Finished)
    /\ rip' = [rip EXCEPT !.pc = "signal"]
    /\ db' = __exit__("rip", "run")
    /\ UNCHANGED <<lookup, enabled, rip_ready, encode_ready, caller, enc,
                   h_lastSetEnabled, h_everEnabled, h_submitted,
                   incomplete, h_leftover, h_duplicate, h_storeFault,
                   display_mapping, connections, sessions, beside>>

(* run(), line 275: db.set_status(row_id, EncodeStatus.Pending_Encode) *)
RipSetPendingEncode ==
    /\ rip.pc = "set_status"
    /\ table' = set_status(rip.row_id, Pending_Encode)
    /\ h_jobs' = Entered(rip.row_id, Pending_Encode)
    /\ rip' = [rip EXCEPT !.pc = "signal"]
    /\ db' = __exit__("rip", "run")
    /\ UNCHANGED <<lookup, enabled, rip_ready, encode_ready, caller, enc,
                   h_lastSetEnabled, h_everEnabled, h_submitted,
                   incomplete, h_leftover, h_duplicate, h_storeFault,
                   display_mapping, connections, sessions, beside>>

(* Faulty variant of RipSignal: the worker consumes its own wake signal   *)
(* at the end of every job.                                               *)
RipSignal_Clears ==
    /\ rip.pc = "signal"
    /\ encode_ready' = TRUE
    /\ rip_ready' = FALSE
    /\ rip' = RipIdle
    /\ UNCHANGED <<table, lookup, enabled, caller, enc,
                   h_lastSetEnabled, h_everEnabled, h_submitted, h_jobs,
                   incomplete, h_leftover, h_duplicate, h_storeFault,
                   display_mapping, connections, sessions, aside>>

(* run(), line 280: self.encode_ready.set() *)
RipSignal ==
    /\ rip.pc = "signal"
    /\ encode_ready' = TRUE
    /\ rip' = RipIdle
    /\ UNCHANGED <<table, lookup, enabled, rip_ready, caller, enc,
                   h_lastSetEnabled, h_everEnabled, h_submitted, h_jobs,
                   incomplete, h_leftover, h_duplicate, h_storeFault,
                   display_mapping, connections, sessions, aside>>

(* A sqlite3 error (the store cannot be opened, read or written) in one   *)
(* of the store sessions of get_work or run; neither catches it, so it    *)
(* leaves run() and the thread ends.                                      *)
RipStoreFault ==
    /\ rip.pc \in {"get_work", "claim", "update_media", "set_status"}
    /\ rip' = [rip EXCEPT !.pc = "dead"]
    /\ h_storeFault' = h_storeFault \cup {"rip"}
    /\ UNCHANGED <<table, lookup, enabled, rip_ready, encode_ready, caller, enc,
                   h_lastSetEnabled, h_everEnabled, h_submitted, h_jobs,
                   incomplete, h_leftover, h_duplicate,
                   display_mapping, connections, sessions, aside>>

RipThread ==
    \/ RipWait \/ RipGetWork \/ RipClear \/ RipClaim \/ RipSaveOk \/ RipSaveFail
    \/ RipUpdateMedia \/ RipSetPendingEncode \/ RipSignal \/ RipStoreFault

-----------------------------------------------------------------------------
(* EncodeThread *)

EncIdle == [pc |-> "wait", row_id |-> NoWork, exit_ok |-> TRUE]

(* self.encode_ready.wait() *)
EncWait ==
    /\ enc.pc = "wait"
    /\ encode_ready
    /\ enc' = [enc EXCEPT !.pc = "get_work"]
    /\ UNCHANGED <<table, lookup, enabled, rip_ready, encode_ready, caller, rip,
                   h_lastSetEnabled, h_everEnabled, h_submitted, h_jobs,
                   incomplete, h_leftover, h_duplicate, h_storeFault,
                   display_mapping, connections, sessions, aside>>

(* get_work: pending = db.get_with_status(Pending_Encode) *)
EncGetWork ==
    LET pending == get_with_status(Pending_Encode)
    IN /\ enc.pc = "get_work"
       /\ enc' = IF Len(pending) = 0
                 THEN [enc EXCEPT !.pc = "clear"]
                 ELSE [enc EXCEPT !.pc = "claim", !.row_id = pending[1]]
       /\ db' = __enter__("enc", "get_work")
       /\ UNCHANGED <<table, lookup, enabled, rip_ready, encode_ready, caller, rip,
                      h_lastSetEnabled, h_everEnabled, h_submitted, h_jobs,
                   incomplete, h_leftover, h_duplicate, h_storeFault,
                   display_mapping, connections, sessions, beside>>

(* get_work: self.encode_ready.clear(); return None; run(): continue *)
EncClear ==
    /\ enc.pc = "clear"
    /\ encode_ready' = FALSE
    /\ enc' = EncIdle
    /\ db' = return("enc", "get_work")
    /\ UNCHANGED <<table, lookup, enabled, rip_ready, caller, rip,
                   h_lastSetEnabled, h_everEnabled, h_submitted, h_jobs,
                   incomplete, h_leftover, h_duplicate, h_storeFault,
                   display_mapping, connections, sessions, beside>>

(* Faulty variant of EncClaim: a claim made while the queue is disabled
   parks the item as Stopped. *)
EncClaim_ParksWhenDisabled ==
    LET claimed_status == IF enabled THEN Encoding ELSE Stopped
    IN /\ enc.pc = "claim"
       /\ table' = set_status(enc.row_id, claimed_status)
       /\ h_jobs' = Entered(enc.row_id, claimed_status)
       /\ connections' = [connections EXCEPT
                             !.enc = connect(@, table[enc.row_id].media.media_name)]
       /\ enc' = [enc EXCEPT !.pc = "encode"]
       /\ db' = return("enc", "get_work")
       /\ UNCHANGED <<lookup, enabled, rip_ready, encode_ready, caller, rip,
                      h_lastSetEnabled, h_everEnabled, h_submitted,
                      incomplete, h_leftover, h_duplicate, h_storeFault,
                      display_mapping, sessions, beside>>

(* get_work: db.set_status(pending[0][0], EncodeStatus.Encoding) *)
EncClaim ==
    /\ enc.pc = "claim"
    /\ table' = set_status(enc.row_id, Encoding)
    /\ h_jobs' = Entered(enc.row_id, Encoding)
    /\ connections' = [connections EXCEPT
                          !.enc = connect(@, table[enc.row_id].media.media_name)]
    /\ enc' = [enc EXCEPT !.pc = "encode"]
    /\ db' = return("enc", "get_work")
    /\ UNCHANGED <<lookup, enabled, rip_ready, encode_ready, caller, rip,
                   h_lastSetEnabled, h_everEnabled, h_submitted,
                   incomplete, h_leftover, h_duplicate, h_storeFault,
                   display_mapping, sessions, beside>>

(* encode(): HandBrake runs and exits with status 0. *)
EncodeOk ==
    /\ enc.pc = "encode"
    /\ display_list
    /\ h_jobs' = [h_jobs EXCEPT ![enc.row_id].encs = @ + 1]
    /\ enc' = [enc EXCEPT !.pc = "record", !.exit_ok = TRUE]
    /\ UNCHANGED <<table, lookup, enabled, rip_ready, encode_ready, caller, rip,
                   h_lastSetEnabled, h_everEnabled, h_submitted,
                   incomplete, h_leftover, h_duplicate, h_storeFault,
                   display_mapping, connections, sessions, aside>>

(* encode(): HandBrake exits with a non-zero status.  process.wait()      *)
(* returns it and encode() drops it: nothing raises CalledProcessError,   *)
(* so the handler of run(), lines 332-335, is never entered.              *)
EncodeAbnormalExit ==
    /\ enc.pc = "encode"
    /\ display_list
    /\ h_jobs' = [h_jobs EXCEPT ![enc.row_id].encs = @ + 1,
                                ![enc.row_id].enc_failed = TRUE]
    /\ enc' = [enc EXCEPT !.pc = "record", !.exit_ok = FALSE]
    /\ UNCHANGED <<table, lookup, enabled, rip_ready, encode_ready, caller, rip,
                   h_lastSetEnabled, h_everEnabled, h_submitted,
                   incomplete, h_leftover, h_duplicate, h_storeFault,
                   display_mapping, connections, sessions, aside>>

(* encode(): subprocess.Popen cannot start HandBrake and raises OSError,  *)
(* which run() does not handle: the thread ends.                          *)
EncodeCannotStart ==
    /\ enc.pc = "encode"
    /\ display_list
    /\ h_jobs' = [h_jobs EXCEPT ![enc.row_id].encs = @ + 1,
                                ![enc.row_id].enc_failed = TRUE]
    /\ enc' = [enc EXCEPT !.pc = "dead"]
    /\ UNCHANGED <<table, lookup, enabled, rip_ready, encode_ready, caller, rip,
                   h_lastSetEnabled, h_everEnabled, h_submitted,
                   incomplete, h_leftover, h_duplicate, h_storeFault,
                   display_mapping, connections, sessions, aside>>

(* Faulty variant of EncRecord: the finished job is put back among the
   pending ones. *)
(* run(), line 331, without a display list: the block of lines 318-324    *)
(* that binds the local 'display' was skipped, so evaluating the argument *)
(* of self.encode(handbrake_cmd, display, handbrake_log) raises           *)
(* UnboundLocalError, which run() does not handle: the thread ends with   *)
(* the item in Encoding.                                                  *)
EncDisplayUnbound ==
    /\ enc.pc = "encode"
    /\ ~display_list
    /\ h_raised' = h_raised \cup {"UnboundLocalError"}
    /\ enc' = [enc EXCEPT !.pc = "dead"]
    /\ UNCHANGED <<table, lookup, enabled, rip_ready, encode_ready, caller, rip,
                   h_lastSetEnabled, h_everEnabled, h_submitted, h_jobs,
                   incomplete, h_leftover, h_duplicate, h_storeFault,
                   display_mapping, connections, sessions, display_list, api,
                   schema, queue, relay, wrapper, progress, db,
                   ui, threads>>

EncRecord_Requeue ==
    /\ enc.pc = "record"
    /\ table' = set_status(enc.row_id, Pending_Encode)
    /\ h_jobs' = Entered(enc.row_id, Pending_Encode)
    /\ enc' = [pc |-> "wait", row_id |-> 0, exit_ok |-> TRUE]
    /\ db' = __exit__("enc", "run")
    /\ UNCHANGED <<lookup, enabled, rip_ready, encode_ready, caller, rip,
                   h_lastSetEnabled, h_everEnabled, h_submitted,
                   incomplete, h_leftover, h_duplicate, h_storeFault,
                   display_mapping, connections, sessions, beside>>

(* run(), lines 338-339: db.set_status(row_id, EncodeStatus.Finished) *)
EncRecord ==
    /\ enc.pc = "record"
    /\ table' = set_status(enc.row_id, Finished)
    /\ h_jobs' = Entered(enc.row_id, Finished)
    /\ enc' = EncIdle
    /\ db' = __exit__("enc", "run")
    /\ UNCHANGED <<lookup, enabled, rip_ready, encode_ready, caller, rip,
                   h_lastSetEnabled, h_everEnabled, h_submitted,
                   incomplete, h_leftover, h_duplicate, h_storeFault,
                   display_mapping, connections, sessions, beside>>

(* A sqlite3 error in the store session of get_work or in the recording   *)
(* session of run; the only except clause of run (CalledProcessError,     *)
(* around encode) does not cover it, so the thread ends.                  *)
EncStoreFault ==
    /\ enc.pc \in {"get_work", "claim", "record"}
    /\ enc' = [enc EXCEPT !.pc = "dead"]
    /\ h_storeFault' = h_storeFault \cup {"enc"}
    /\ UNCHANGED <<table, lookup, enabled, rip_ready, encode_ready, caller, rip,
                   h_lastSetEnabled, h_everEnabled, h_submitted, h_jobs,
                   incomplete, h_leftover, h_duplicate,
                   display_mapping, connections, sessions, aside>>

EncodeThread ==
    \/ EncWait \/ EncGetWork \/ EncClear \/ EncClaim
    \/ EncodeOk \/ EncodeAbnormalExit \/ EncodeCannotStart \/ EncRecord
    \/ EncStoreFault

-----------------------------------------------------------------------------
Caller ==
    \/ \E is_enabled \in BOOLEAN : set_enabled(is_enabled)
    \/ \E call \in EnqueueInputs :
          enqueue(call.media, call.output_filepath, call.title_number, call.do_rip)
    \/ enqueue_display
    \/ enqueue_signal

Next == Caller \/ RipThread \/ EncodeThread

Spec == Init /\ [][Next]_vars

(* The worker threads are OS threads and a call in progress returns: each *)
(* keeps taking steps while it can.  Nothing obliges the caller to make   *)
(* a call.                                                                *)
LiveSpec ==
    /\ Spec
    /\ WF_vars(RipThread) /\ WF_vars(EncodeThread)
    /\ WF_vars(enqueue_display) /\ WF_vars(enqueue_signal)

(* The same program started on a store an earlier run left. *)
RestartSpec == RestartInit /\ [][Next]_vars

RestartLiveSpec ==
    /\ RestartSpec
    /\ WF_vars(RipThread) /\ WF_vars(EncodeThread)
    /\ WF_vars(enqueue_display) /\ WF_vars(enqueue_signal)

-----------------------------------------------------------------------------
(* The program constructed as WorkQueue(db_filepath, program_settings):   *)
(* display_list keeps its default None (database.py:160, 168) and is      *)
(* handed to both workers (database.py:179, 181).                         *)
HeadlessInit ==
    /\ table = <<>>
    /\ lookup = <<>>
    /\ enabled = FALSE
    /\ rip_ready = FALSE
    /\ encode_ready = FALSE
    /\ caller = [pc |-> "idle", media |-> None, do_rip |-> FALSE]
    /\ rip = [pc |-> "wait", row_id |-> NoWork, media |-> None]
    /\ enc = [pc |-> "wait", row_id |-> NoWork, exit_ok |-> TRUE]
    /\ h_lastSetEnabled = "none"
    /\ h_everEnabled = FALSE
    /\ h_submitted = <<>>
    /\ h_jobs = <<>>
    /\ incomplete = restart_incomplete_jobs
    /\ h_leftover = {}
    /\ h_duplicate = FALSE
    /\ h_storeFault = {}
    /\ display_mapping = {}
    /\ connections = [rip |-> EmptyBag, enc |-> EmptyBag]
    /\ sessions = [client \in Clients |-> SessionClosed]
    /\ display_list = FALSE
    /\ NoCalls
    /\ Constructed

(* Without a display list enqueue never gets as far as its signal, so     *)
(* rip_ready is never set and the rip worker stays in its first wait();   *)
(* encode_ready is set by set_enabled.                                    *)
HeadlessNext ==
    \/ \E is_enabled \in BOOLEAN : set_enabled(is_enabled)
    \/ \E call \in EnqueueInputs :
          enqueue(call.media, call.output_filepath, call.title_number, call.do_rip)
    \/ enqueue_display_None
    \/ EncWait \/ EncGetWork \/ EncClear \/ EncClaim
    \/ EncDisplayUnbound
    \/ EncStoreFault

HeadlessSpec == HeadlessInit /\ [][HeadlessNext]_vars

-----------------------------------------------------------------------------
(* enqueue's store session, statement by statement, run by the threads of *)
(* Clients at the same time:                                              *)
(*   with EncodeDatabase(self.db_filepath) as db:                         *)
(*       if not db.get_with_name(media.file_name):                        *)
(*           db.add_entry(media, output_filepath, title_number, status)   *)
(* Each thread has its own sqlite3 connection.  table and lookup are the  *)
(* committed store, which is what a query of any other connection sees.   *)
(* An INSERT opens a transaction on its connection and takes the          *)
(* database's write lock; a second connection's INSERT waits for it.      *)
frame ==
    <<enabled, rip_ready, encode_ready, caller, rip, enc, display_mapping, connections,
      h_lastSetEnabled, h_everEnabled, h_submitted, incomplete, h_leftover,
      h_duplicate, h_storeFault, aside>>

WriteLocked(client) ==
    \E other \in Clients \ {client} : sessions[other].pending # <<>>

(* EncodeDatabase.__init__ / __enter__ *)
session_open(client, call) ==
    /\ sessions[client].pc = "closed"
    /\ Len(table) + Cardinality({c \in Clients : sessions[c].pc # "closed"}) < MaxJobs
    /\ sessions' = [sessions EXCEPT ![client] =
                        [pc |-> "get_with_name", call |-> call, pending |-> <<>>]]
    /\ UNCHANGED <<table, lookup, h_jobs, frame>>

(* if not db.get_with_name(media.file_name) *)
session_get_with_name(client) ==
    /\ sessions[client].pc = "get_with_name"
    /\ sessions' = [sessions EXCEPT ![client].pc =
                        IF get_with_name(sessions[client].call.media.file_name) = None
                        THEN "insert_media"
                        ELSE "exit"]
    /\ UNCHANGED <<table, lookup, h_jobs, frame>>

(* add_entry: INSERT INTO media_table; the row is in the connection's     *)
(* transaction.                                                           *)
add_entry_insert_media(client) ==
    LET call == sessions[client].call
        new_status == IF call.do_rip THEN Pending_Rip ELSE Pending_Encode
    IN /\ sessions[client].pc = "insert_media"
       /\ ~WriteLocked(client)
       /\ sessions' = [sessions EXCEPT
                          ![client].pc = "insert_lookup",
                          ![client].pending =
                              <<add_entry_row(call.media, call.output_filepath,
                                              call.title_number, new_status)>>]
       /\ UNCHANGED <<table, lookup, h_jobs, frame>>

(* add_entry: INSERT INTO media_lookup; media_filename is UNIQUE, so the  *)
(* statement raises sqlite3.IntegrityError when the name is present, and  *)
(* add_entry is left before its commit.                                   *)
add_entry_insert_lookup(client) ==
    /\ sessions[client].pc = "insert_lookup"
    /\ sessions' = [sessions EXCEPT ![client].pc =
                        IF sessions[client].call.media.file_name \in DOMAIN lookup
                        THEN "raised"
                        ELSE "commit"]
    /\ UNCHANGED <<table, lookup, h_jobs, frame>>

(* add_entry: self.connection.commit() *)
add_entry_commit(client) ==
    LET row == sessions[client].pending[1]
    IN /\ sessions[client].pc = "commit"
       /\ table' = Append(table, row)
       /\ lookup' = lookup @@ (sessions[client].call.media.file_name :> row.id)
       /\ h_jobs' = Append(h_jobs, NewJobHistory(row.encode_status))
       /\ sessions' = [sessions EXCEPT ![client].pc = "exit", ![client].pending = <<>>]
       /\ UNCHANGED frame

(* Faulty variant of session_exit: leaving the with block commits what    *)
(* the connection has pending.                                            *)
session_exit_Commits(client) ==
    /\ sessions[client].pc \in {"exit", "raised"}
    /\ table' = table \o sessions[client].pending
    /\ h_jobs' = h_jobs \o [i \in DOMAIN sessions[client].pending |->
                               NewJobHistory(sessions[client].pending[i].encode_status)]
    /\ sessions' = [sessions EXCEPT ![client] = SessionClosed]
    /\ UNCHANGED <<lookup, frame>>

(* __exit__ closes the cursor only; the connection is closed when the     *)
(* EncodeDatabase object is reclaimed, and closing a connection discards  *)
(* its uncommitted transaction.                                           *)
session_exit(client) ==
    /\ sessions[client].pc \in {"exit", "raised"}
    /\ sessions' = [sessions EXCEPT ![client] = SessionClosed]
    /\ UNCHANGED <<table, lookup, h_jobs, frame>>

StoreNext ==
    \E client \in Clients :
        \/ \E call \in EnqueueInputs : session_open(client, call)
        \/ session_get_with_name(client)
        \/ add_entry_insert_media(client)
        \/ add_entry_insert_lookup(client)
        \/ add_entry_commit(client)
        \/ session_exit(client)

StoreSpec == Init /\ [][StoreNext]_vars

-----------------------------------------------------------------------------
(* Vocabulary of the properties. *)

(* EncodeDatabase.get_with_status and set_status called directly, with    *)
(* any object as the status argument, on the store an earlier run left.   *)
(* The dispatch history h_jobs is not about these calls.                  *)
call_get_with_status(encode_status) ==
    /\ api.pc = "idle"
    /\ api' = IF ~isinstance(encode_status, "EncodeStatus")
              THEN [pc |-> "RuntimeError", op |-> "get_with_status",
                    arg |-> encode_status, executed |-> 0, rows |-> <<>>]
              ELSE [pc |-> "returned", op |-> "get_with_status",
                    arg |-> encode_status, executed |-> 1,
                    rows |-> get_with_status(encode_status.value)]
    /\ UNCHANGED <<table, lookup, h_jobs, sessions, dispatch, display_list, h_raised,
                   schema, queue, relay, wrapper, progress>>

(* Faulty variant of call_set_status: the argument is not tested. *)
call_set_status_Unchecked(row_id, encode_status) ==
    /\ api.pc = "idle"
    /\ table' = set_status(row_id, encode_status.value)
    /\ api' = [pc |-> "returned", op |-> "set_status",
               arg |-> encode_status, executed |-> 1, rows |-> <<>>]
    /\ UNCHANGED <<lookup, h_jobs, sessions, dispatch, display_list, h_raised,
                   schema, queue, relay, wrapper, progress>>

call_set_status(row_id, encode_status) ==
    /\ api.pc = "idle"
    /\ IF ~isinstance(encode_status, "EncodeStatus")
       THEN /\ api' = [pc |-> "RuntimeError", op |-> "set_status",
                       arg |-> encode_status, executed |-> 0, rows |-> <<>>]
            /\ UNCHANGED table
       ELSE /\ table' = set_status(row_id, encode_status.value)
            /\ api' = [pc |-> "returned", op |-> "set_status",
                       arg |-> encode_status, executed |-> 1, rows |-> <<>>]
    /\ UNCHANGED <<lookup, h_jobs, sessions, dispatch, display_list, h_raised,
                   schema, queue, relay, wrapper, progress>>

(* The caller has its result, or the exception, and is free to call again. *)
call_return ==
    /\ api.pc # "idle"
    /\ api' = ApiIdle
    /\ UNCHANGED <<table, lookup, h_jobs, sessions, dispatch, display_list, h_raised,
                   schema, queue, relay, wrapper, progress>>

ApiNext ==
    \/ \E encode_status \in StatusArguments : call_get_with_status(encode_status)
    \/ \E row_id \in RowIds, encode_status \in StatusArguments :
          call_set_status(row_id, encode_status)
    \/ call_return

ApiSpec == RestartInit /\ [][ApiNext]_vars

-----------------------------------------------------------------------------

(* WorkQueue constructed, any number of times, on a store file in any     *)
(* condition: no file (no table), a file with some of the tables, or the  *)
(* store of an earlier run, empty or with an item.  Items are enqueued    *)
(* in between.  The dispatcher is never enabled here.                     *)
ConstructInit ==
    /\ \E tables \in SUBSET Tables :
          /\ schema = tables
          /\ \/ /\ table = <<>>
                /\ lookup = <<>>
                /\ h_jobs = <<>>
                /\ h_leftover = {}
             \/ /\ tables = Tables
                /\ \E encode_status \in LeftoverStatuses :
                      /\ table = <<LeftoverRow(encode_status)>>
                      /\ lookup = ("dvd_a" :> 1)
                      /\ h_jobs = <<NewJobHistory(encode_status)>>
                      /\ h_leftover = {1}
    /\ queue = [constructions |-> "none", created |-> FALSE, alive |-> FALSE]
    /\ enabled = FALSE
    /\ rip_ready = FALSE
    /\ encode_ready = FALSE
    /\ caller = [pc |-> "idle", media |-> None, do_rip |-> FALSE]
    /\ rip = [pc |-> "wait", row_id |-> NoWork, media |-> None]
    /\ enc = [pc |-> "wait", row_id |-> NoWork, exit_ok |-> TRUE]
    /\ h_lastSetEnabled = "none"
    /\ h_everEnabled = FALSE
    /\ h_submitted = <<>>
    /\ incomplete = <<>>
    /\ h_duplicate = FALSE
    /\ h_storeFault = {}
    /\ display_mapping = {}
    /\ connections = [rip |-> EmptyBag, enc |-> EmptyBag]
    /\ sessions = [client \in Clients |-> SessionClosed]
    /\ display_list = TRUE
    /\ NoCalls

(* Faulty variant of WorkQueue_init: the schema is built afresh at every  *)
(* construction, as the docstring of construct_db has it ("Overwrites any *)
(* old data").                                                            *)
WorkQueue_init_Recreate ==
    /\ caller.pc = "idle"
    /\ schema' = Tables
    /\ table' = <<>>
    /\ lookup' = <<>>
    /\ h_jobs' = <<>>
    /\ queue' = [constructions |-> IF queue.constructions = "none" THEN "once" ELSE "again",
                 created |-> TRUE, alive |-> TRUE]
    /\ enabled' = FALSE
    /\ rip_ready' = FALSE
    /\ encode_ready' = FALSE
    /\ rip' = RipIdle
    /\ enc' = EncIdle
    /\ incomplete' = <<>>
    /\ UNCHANGED <<caller, display_mapping, connections, h_lastSetEnabled, h_everEnabled,
                   h_submitted, h_leftover, h_duplicate, h_storeFault, h_raised,
                   sessions, display_list, api, relay, wrapper, progress, db,
                   ui, threads>>

(* WorkQueue.__init__, lines 160-184.  When construct_db raises, the      *)
(* constructor ends there: no fields are set and no workers are started.  *)
WorkQueue_init ==
    LET verified == verify_db(schema)
        built == IF verified THEN [schema |-> schema, raised |-> FALSE]
                 ELSE construct_db(schema)
    IN /\ caller.pc = "idle"
       /\ schema' = built.schema
       /\ h_raised' = IF built.raised THEN h_raised \cup {"OperationalError"} ELSE h_raised
       /\ queue' = [constructions |-> IF queue.constructions = "none" THEN "once" ELSE "again",
                    created |-> queue.created \/ (~verified /\ ~built.raised),
                    alive |-> queue.alive \/ ~built.raised]
       /\ IF built.raised
          THEN UNCHANGED <<enabled, rip_ready, encode_ready, rip, enc, incomplete>>
          ELSE /\ enabled' = FALSE
               /\ rip_ready' = FALSE
               /\ encode_ready' = FALSE
               /\ rip' = RipIdle
               /\ enc' = EncIdle
               /\ incomplete' = restart_incomplete_jobs
       /\ UNCHANGED <<table, lookup, h_jobs, caller, display_mapping, connections,
                      h_lastSetEnabled, h_everEnabled, h_submitted, h_leftover,
                      h_duplicate, h_storeFault, sessions, display_list, api,
                      relay, wrapper, progress, db,
                   ui, threads>>

(* enqueue, line 217, on a store without media_lookup, which verify_db    *)
(* lets pass: get_with_name's SELECT raises sqlite3.OperationalError.     *)
enqueue_NoSuchTable ==
    /\ caller.pc = "idle"
    /\ queue.alive
    /\ "media_lookup" \notin schema
    /\ h_raised' = h_raised \cup {"OperationalError"}
    /\ UNCHANGED <<table, lookup, h_jobs, sessions, dispatch, display_list, api,
                   schema, queue, relay, wrapper, progress>>

ConstructNext ==
    \/ WorkQueue_init
    \/ \E call \in EnqueueInputs :
          enqueue(call.media, call.output_filepath, call.title_number, call.do_rip)
    \/ enqueue_display
    \/ enqueue_signal
    \/ enqueue_NoSuchTable

ConstructSpec == ConstructInit /\ [][ConstructNext]_vars

-----------------------------------------------------------------------------

(* The progress relays.  A byte is a string of one character; 0xE9 stands *)
(* for a byte above 0x7F.  Text is a sequence of characters.              *)
CR == "\r"

HighBytes == {"0xE9"}

Digit == {"0", "1", "2", "3", "4", "5", "6", "7", "8", "9"}

DigitValue ==
    ("0" :> 0) @@ ("1" :> 1) @@ ("2" :> 2) @@ ("3" :> 3) @@ ("4" :> 4) @@
    ("5" :> 5) @@ ("6" :> 6) @@ ("7" :> 7) @@ ("8" :> 8) @@ ("9" :> 9)

(* int(match.group(1)) *)
RECURSIVE int(_)
int(digits) ==
    IF digits = <<>> THEN 0
    ELSE 10 * int(SubSeq(digits, 1, Len(digits) - 1)) + DigitValue[digits[Len(digits)]]

(* b''.join(line).decode('ascii'): the text itself, or UnicodeDecodeError *)
(* when a byte is above 0x7F.                                             *)
decode_ascii(bytes) ==
    IF \E i \in DOMAIN bytes : bytes[i] \in HighBytes
    THEN [raised |-> "UnicodeDecodeError"]
    ELSE [text |-> bytes]

StartsWith(text, literal) ==
    Len(text) >= Len(literal) /\ SubSeq(text, 1, Len(literal)) = literal

Drop(text, n) == SubSeq(text, n + 1, Len(text))

(* The length of the longest run of digits text begins with: what \d+     *)
(* takes when the pattern goes on with a character that is no digit.      *)
RECURSIVE DigitRun(_)
DigitRun(text) ==
    IF text = <<>> \/ Head(text) \notin Digit THEN 0 ELSE 1 + DigitRun(Tail(text))

(* The literal parts of r'^Encoding: task \d+ of \d+, (\d+)\.\d+ %'. *)
EncodingTask == <<"E", "n", "c", "o", "d", "i", "n", "g", ":", " ", "t", "a", "s", "k", " ">>

Of == <<" ", "o", "f", " ">>

Comma == <<",", " ">>

Percent == <<" ", "%">>

(* re.search(r'^Encoding: task \d+ of \d+, (\d+)\.\d+ %', decoded_line):  *)
(* without re.MULTILINE '^' is the start of the text; text after ' %' is  *)
(* allowed.  The result is None or the match with its group 1.            *)
re_search(decoded_line) ==
    LET task == Drop(decoded_line, Len(EncodingTask))
        of == Drop(task, DigitRun(task))
        tasks == Drop(of, Len(Of))
        comma == Drop(tasks, DigitRun(tasks))
        whole == Drop(comma, Len(Comma))
        point == Drop(whole, DigitRun(whole))
        fraction == Drop(point, 1)
        percent == Drop(fraction, DigitRun(fraction))
    IN IF /\ StartsWith(decoded_line, EncodingTask)
          /\ DigitRun(task) >= 1
          /\ StartsWith(of, Of)
          /\ DigitRun(tasks) >= 1
          /\ StartsWith(comma, Comma)
          /\ DigitRun(whole) >= 1
          /\ StartsWith(point, <<".">>)
          /\ DigitRun(fraction) >= 1
          /\ StartsWith(percent, Percent)
       THEN [group1 |-> SubSeq(whole, 1, DigitRun(whole))]
       ELSE None

(* re.search(r' (\d{1,3})%$', self.text): a space, one to three digits    *)
(* and '%' at the end of the text, or just before a newline that ends it. *)
re_search_percent(text) ==
    LET end == IF text # <<>> /\ text[Len(text)] = "\n" THEN Len(text) - 1 ELSE Len(text)
        Fits(k) == /\ end - k - 1 >= 1
                   /\ text[end - k - 1] = " "
                   /\ \A i \in (end - k)..(end - 1) : text[i] \in Digit
    IN IF end >= 1 /\ text[end] = "%" /\ \E k \in 1..3 : Fits(k)
       THEN [group1 |-> LET k == CHOOSE k \in 1..3 : Fits(k)
                        IN SubSeq(text, end - k, end - 1)]
       ELSE None

(* What HandBrakeCLI may write to its stdout between two reads of the     *)
(* relay: progress lines ended by a carriage return, with one task or     *)
(* two, with text after the percentage, with a percentage above 100; a    *)
(* line that is no progress line; a line with a byte above 0x7F; a        *)
(* progress line that does not begin the segment; one without fraction;   *)
(* and the beginning of a progress line that is not ended yet.            *)
ProgressLine(task, tasks, whole, fraction) ==
    EncodingTask \o task \o Of \o tasks \o Comma \o whole \o <<".">> \o fraction \o Percent

EncoderChunks ==
    {ProgressLine(<<"1">>, <<"1">>, <<"4", "2">>, <<"0">>) \o <<CR>>,
     ProgressLine(<<"1">>, <<"2">>, <<"9", "0">>, <<"5", "0">>)
        \o <<" ", "(", "E", "T", "A", ")", CR>>,
     ProgressLine(<<"2">>, <<"2">>, <<"7">>, <<"2", "5">>) \o <<CR>>,
     ProgressLine(<<"1">>, <<"1">>, <<"2", "5", "0">>, <<"0">>) \o <<CR>>,
     <<"g", "a", "r", "b", "a", "g", "e", CR>>,
     <<"c", "a", "f", "0xE9", CR>>,
     <<"\n">> \o ProgressLine(<<"1">>, <<"1">>, <<"9">>, <<"0">>) \o <<CR>>,
     EncodingTask \o <<"1">> \o Of \o <<"1">> \o Comma \o <<"4", "2">> \o Percent \o <<CR>>,
     EncodingTask \o <<"1">>}

(* What the rip operation may write to its progress stream in one write:  *)
(* meter texts that end with a percentage (one followed by a newline,     *)
(* one above 100) and a text that does not.                               *)
RipTexts ==
    {<<"|", " ", "5", "0", "%">>,
     <<"/", " ", "2", "0", "%">>,
     <<"-", " ", "2", "5", "0", "%", "\n">>,
     <<"d", "o", "n", "e">>}

(* The calls the rip operation may make on its stream. *)
StreamCalls == [op : {"write"}, text : RipTexts] \cup {[op |-> "flush", text |-> <<>>]}

(* Bound of the model: the number of chunks the encoder writes, and half  *)
(* the number of calls the rip operation makes on its stream.             *)
MaxOutput == 2

RECURSIVE Concat(_)
Concat(chunks) == IF chunks = <<>> THEN <<>> ELSE Head(chunks) \o Concat(Tail(chunks))

SeqsUpTo(S, n) == UNION {[1..k -> S] : k \in 0..n}

(* run(), lines 318-324, and encode(), line 346, for an item that has a   *)
(* display: progress_change.emit(0), then Popen starts the encoder, whose *)
(* whole output is chosen here.                                           *)
Popen ==
    /\ relay.pc = "idle"
    /\ wrapper.pc = "idle"
    /\ progress' = <<0>>
    /\ \E chunks \in SeqsUpTo(EncoderChunks, MaxOutput) :
          relay' = [pc |-> "read", stdout |-> Concat(chunks), line |-> <<>>,
                    h_read |-> <<>>]
    /\ UNCHANGED <<table, lookup, h_jobs, sessions, dispatch, display_list, h_raised,
                   api, schema, queue, wrapper>>

(* encode(), lines 353-363: one turn of the loop over                     *)
(* process.stdout.read(1).  UnicodeDecodeError is not handled by encode() *)
(* nor by run(): the thread ends.                                         *)
RelayRead ==
    LET character == Head(relay.stdout)
        line == Append(relay.line, character)
        decoded_line == decode_ascii(line)
        match == re_search(decoded_line.text)
    IN /\ relay.pc = "read"
       /\ relay.stdout # <<>>
       /\ IF character # CR
          THEN /\ relay' = [relay EXCEPT !.stdout = Tail(@), !.line = line,
                                         !.h_read = Append(@, character)]
               /\ UNCHANGED <<progress, h_raised>>
          ELSE IF "raised" \in DOMAIN decoded_line
          THEN /\ relay' = [relay EXCEPT !.pc = decoded_line.raised, !.stdout = Tail(@),
                                         !.line = line, !.h_read = Append(@, character)]
               /\ h_raised' = h_raised \cup {decoded_line.raised}
               /\ UNCHANGED progress
          ELSE /\ relay' = [relay EXCEPT !.stdout = Tail(@), !.line = <<>>,
                                         !.h_read = Append(@, character)]
               /\ progress' = IF match # None
                              THEN Append(progress, int(match.group1))
                              ELSE progress
               /\ UNCHANGED h_raised
       /\ UNCHANGED <<table, lookup, h_jobs, sessions, dispatch, display_list,
                      api, schema, queue, wrapper>>

(* encode(), lines 365-373: read(1) returns b'' at the end of the output; *)
(* the pipe is closed, the process waited for, and progress 100 emitted.  *)
RelayEOF ==
    /\ relay.pc = "read"
    /\ relay.stdout = <<>>
    /\ relay' = [relay EXCEPT !.pc = "done"]
    /\ progress' = Append(progress, 100)
    /\ UNCHANGED <<table, lookup, h_jobs, sessions, dispatch, display_list, h_raised,
                   api, schema, queue, wrapper>>

(* RipThread.run(), lines 252-266, for an item that has a display:        *)
(* progress_change.emit(0), then save_to_file makes a ProgressWrapper     *)
(* with progress_change.emit as its callback (media_factory.py:170-179)   *)
(* and the rip operation writes to it; its calls are chosen here.         *)
save_to_file ==
    /\ relay.pc = "idle"
    /\ wrapper.pc = "idle"
    /\ progress' = <<0>>
    /\ \E calls \in SeqsUpTo(StreamCalls, 2 * MaxOutput) :
          wrapper' = [pc |-> "rip", calls |-> calls, text |-> <<>>, percent |-> 0]
    /\ UNCHANGED <<table, lookup, h_jobs, sessions, dispatch, display_list, h_raised,
                   api, schema, queue, relay>>

(* ProgressWrapper.write: self.text += text *)
write ==
    /\ wrapper.pc = "rip"
    /\ wrapper.calls # <<>>
    /\ Head(wrapper.calls).op = "write"
    /\ wrapper' = [wrapper EXCEPT !.calls = Tail(@),
                                  !.text = @ \o Head(wrapper.calls).text]
    /\ UNCHANGED <<table, lookup, h_jobs, sessions, dispatch, display_list, h_raised,
                   api, schema, queue, relay, progress>>

(* ProgressWrapper.flush: re.search(...).group(1) raises AttributeError   *)
(* when the text does not end with a percentage (search returns None);    *)
(* nothing between flush and the top of RipThread.run handles it.         *)
flush ==
    LET match == re_search_percent(wrapper.text)
    IN /\ wrapper.pc = "rip"
       /\ wrapper.calls # <<>>
       /\ Head(wrapper.calls).op = "flush"
       /\ IF match = None
          THEN /\ wrapper' = [wrapper EXCEPT !.pc = "AttributeError", !.calls = Tail(@)]
               /\ h_raised' = h_raised \cup {"AttributeError"}
               /\ UNCHANGED progress
          ELSE /\ wrapper' = [wrapper EXCEPT !.calls = Tail(@), !.text = <<>>,
                                             !.percent = int(match.group1)]
               /\ progress' = Append(progress, int(match.group1))
               /\ UNCHANGED h_raised
       /\ UNCHANGED <<table, lookup, h_jobs, sessions, dispatch, display_list,
                      api, schema, queue, relay>>

(* The rip operation returns. *)
save_to_file_return ==
    /\ wrapper.pc = "rip"
    /\ wrapper.calls = <<>>
    /\ wrapper' = [wrapper EXCEPT !.pc = "done"]
    /\ UNCHANGED <<table, lookup, h_jobs, sessions, dispatch, display_list, h_raised,
                   api, schema, queue, relay, progress>>

(* One stage execution of one item that has a display, with any output of *)
(* the external operation.                                                *)
ProgressNext ==
    \/ Popen
    \/ RelayRead
    \/ RelayEOF
    \/ save_to_file
    \/ write
    \/ flush
    \/ save_to_file_return

ProgressSpec == Init /\ [][ProgressNext]_vars

-----------------------------------------------------------------------------

(* The display registry between threads.  Interface.py, class DisplayList *)
(* (lines 405-447); the callers are enqueue (database.py, lines 220-221)  *)
(* and the workers' lookups (lines 253 and 319).  init_display is         *)
(* connected to the slot _initDisplay of the DisplayList, a QObject of    *)
(* the UI thread: emitted on the UI thread the slot runs inside emit(),   *)
(* emitted on another thread the call is posted to the UI thread's event  *)
(* queue and runs when the UI thread processes its events.                *)

(* Everything but the DisplayList and the threads that call it. *)
outside ==
    <<table, lookup, enabled, rip_ready, encode_ready, caller, rip, enc,
      display_mapping, connections,
      h_lastSetEnabled, h_everEnabled, h_submitted, h_jobs,
      incomplete, h_leftover, h_duplicate, h_storeFault, sessions,
      display_list, h_raised, api, schema, queue, relay, wrapper, progress, db>>

(* Bound of the model: the number of enqueue calls, or of lookups, one    *)
(* thread makes.                                                          *)
MaxCalls == 2

(* DisplayList.getDisplay, on the registry with its displays as objects. *)
DisplayList_getDisplay(media_name) == ui.display_mapping[media_name]

(* DisplayList._initDisplay up to ready_event.set(): a new EncodeDisplay  *)
(* is added to the list and stored under media_name, in place of whatever *)
(* was stored under it.                                                   *)
_initDisplay(media_name) ==
    [ui EXCEPT !.displays = Append(@, media_name),
               !.display_mapping[media_name] = Len(ui.displays) + 1]

(* The UI thread runs the slot for the first posted init_display call;    *)
(* its last statement sets the ready_event of the caller.                 *)
processEvent ==
    LET event == Head(ui.events)
    IN /\ ui.events # <<>>
       /\ ui' = [_initDisplay(event.media_name) EXCEPT !.events = Tail(ui.events)]
       /\ threads' = [threads EXCEPT ![event.thread].ready_event = TRUE,
                                     ![event.thread].h_created = TRUE]

(* enqueue, line 220: if not self.display_list.getDisplay(media_name) *)
enqueue_getDisplay(thread, media_name) ==
    LET display == DisplayList_getDisplay(media_name)
    IN /\ thread \in {"ui_thread", "other"}
       /\ threads[thread].pc = "idle"
       /\ threads[thread].calls < MaxCalls
       /\ threads' = [threads EXCEPT ![thread] =
              [pc |-> IF display = NoDisplay THEN "createDisplay" ELSE "idle",
               media_name |-> media_name,
               ready_event |-> FALSE,
               display |-> display,
               calls |-> @.calls + 1,
               h_created |-> FALSE]]
       /\ UNCHANGED <<ui, outside>>

(* RipThread.run / EncodeThread.run, lines 253 and 319: a lookup. *)
worker_getDisplay(media_name) ==
    /\ threads["worker"].calls < MaxCalls
    /\ threads' = [threads EXCEPT !["worker"] =
           [@ EXCEPT !.media_name = media_name,
                     !.display = DisplayList_getDisplay(media_name),
                     !.calls = @ + 1]]
    /\ UNCHANGED <<ui, outside>>

(* Faulty variant of createDisplay: a thread other than the UI thread     *)
(* does not wait for its ready_event.                                     *)
createDisplay_NoWait(thread) ==
    /\ threads[thread].pc = "createDisplay"
    /\ IF thread = "ui_thread"
       THEN /\ ui' = _initDisplay(threads[thread].media_name)
            /\ threads' = [threads EXCEPT ![thread].ready_event = TRUE,
                                          ![thread].h_created = TRUE,
                                          ![thread].pc = "processEvents"]
       ELSE /\ ui' = [ui EXCEPT !.events =
                         Append(@, [media_name |-> threads[thread].media_name,
                                    thread |-> thread])]
            /\ threads' = [threads EXCEPT ![thread].pc = "return"]
    /\ UNCHANGED outside

(* createDisplay, lines 427-436: ready_event is new and clear;            *)
(* init_display.emit(...).  On the UI thread the slot has run when emit   *)
(* returns, and the thread goes on to QApplication.processEvents() (in    *)
(* create_display of async_signals_test.py, to ready_event.wait(), which  *)
(* finds the event set); on another thread the call is posted and the     *)
(* thread goes on to ready_event.wait().                                  *)
createDisplay(thread) ==
    /\ threads[thread].pc = "createDisplay"
    /\ IF thread = "ui_thread"
       THEN /\ ui' = _initDisplay(threads[thread].media_name)
            /\ \E statement \in {"processEvents", "wait"} :
                  threads' = [threads EXCEPT ![thread].ready_event = TRUE,
                                             ![thread].h_created = TRUE,
                                             ![thread].pc = statement]
       ELSE /\ ui' = [ui EXCEPT !.events =
                         Append(@, [media_name |-> threads[thread].media_name,
                                    thread |-> thread])]
            /\ threads' = [threads EXCEPT ![thread].pc = "wait"]
    /\ UNCHANGED outside

(* QApplication.processEvents() inside createDisplay on the UI thread     *)
(* runs the slot for a posted call.                                       *)
processEvents_event ==
    /\ threads["ui_thread"].pc = "processEvents"
    /\ processEvent
    /\ UNCHANGED outside

(* QApplication.processEvents() returns when no event is left. *)
processEvents_return ==
    /\ threads["ui_thread"].pc = "processEvents"
    /\ ui.events = <<>>
    /\ threads' = [threads EXCEPT !["ui_thread"].pc = "return"]
    /\ UNCHANGED <<ui, outside>>

(* app.exec_(), handlebar.py line 38: the event loop of the UI thread,    *)
(* while the thread is not inside a call of enqueue.                      *)
exec_ ==
    /\ threads["ui_thread"].pc = "idle"
    /\ processEvent
    /\ UNCHANGED outside

(* ready_event.wait() returns once the event is set. *)
wait(thread) ==
    /\ threads[thread].pc = "wait"
    /\ threads[thread].ready_event
    /\ threads' = [threads EXCEPT ![thread].pc = "return"]
    /\ UNCHANGED <<ui, outside>>

(* createDisplay, line 437: return self.display_mapping[media_name] *)
createDisplay_return(thread) ==
    /\ threads[thread].pc = "return"
    /\ threads' = [threads EXCEPT
           ![thread].display = ui.display_mapping[threads[thread].media_name],
           ![thread].pc = "idle"]
    /\ UNCHANGED <<ui, outside>>

(* The UI thread's share: its event loop and processEvents. *)
UiEvents == exec_ \/ processEvents_event \/ processEvents_return

DisplayNext ==
    \/ \E thread \in {"ui_thread", "other"}, media_name \in DisplayNames :
          enqueue_getDisplay(thread, media_name)
    \/ \E media_name \in DisplayNames : worker_getDisplay(media_name)
    \/ \E thread \in {"ui_thread", "other"} :
          createDisplay(thread) \/ wait(thread) \/ createDisplay_return(thread)
    \/ UiEvents

DisplaySpec == Init /\ [][DisplayNext]_vars

(* The UI thread keeps processing its events, and every thread that can   *)
(* take its next step takes it.                                           *)
DisplayLiveSpec ==
    /\ DisplaySpec
    /\ WF_vars(UiEvents)
    /\ \A thread \in {"ui_thread", "other"} :
          WF_vars(createDisplay(thread) \/ wait(thread) \/ createDisplay_return(thread))

-----------------------------------------------------------------------------

Status(row_id) == table[row_id].encode_status

NoDuplicates(seq) == \A i, j \in DOMAIN seq : seq[i] = seq[j] => i = j

(* The incomplete-items set: the rows whose status is below Finished. *)
Incomplete == {row_id \in RowIds : Status(row_id) < Finished}

SomeFailure == \E row_id \in DOMAIN h_jobs :
                  h_jobs[row_id].rip_failed \/ h_jobs[row_id].enc_failed

(* The worker is between its claim of row_id and its recording step. *)
RipHandling(row_id) ==
    /\ rip.row_id = row_id
    /\ rip.pc \in {"claim", "save_to_file", "update_media", "set_status"}

EncHandling(row_id) ==
    /\ enc.row_id = row_id
    /\ enc.pc \in {"claim", "encode", "record"}

-----------------------------------------------------------------------------
(* C1: starting from an empty store with the dispatcher disabled, once X  *)
(* has been enqueued with do_rip=True (stored as Pending_Rip) and         *)
(* set_enabled(True) is called, then, unless a further enqueue call is    *)
(* made, the dispatcher is disabled again or an external operation fails, *)
(* X eventually has gone through Ripping, Pending_Encode and Encoding and *)
(* is Finished, and no item has a status below Finished.                  *)
C1_Enqueued ==
    /\ h_lastSetEnabled = "none"
    /\ caller.pc = "idle"
    /\ Len(table) = 1
    /\ Status(1) = Pending_Rip
    /\ table[1].media.source_type = "drive"

C1_Done ==
    /\ Len(table) = 1
    /\ h_jobs[1].entries = <<Pending_Rip, Ripping, Pending_Encode, Encoding, Finished>>
    /\ Status(1) = Finished
    /\ Incomplete = {}

C1_Escape ==
    \/ caller.pc # "idle"
    \/ h_lastSetEnabled = "False"
    \/ SomeFailure
    \/ h_storeFault # {}

C1_EndToEnd == [](C1_Enqueued => ([](~enabled) \/ <>(C1_Done \/ C1_Escape)))

-----------------------------------------------------------------------------
(* C2: every change of a stored item's encode_status is one of            *)
(* Pending_Rip->Ripping, Ripping->Pending_Encode, Ripping->Error,         *)
(* Pending_Encode->Encoding, Encoding->Finished, Encoding->Error, and no  *)
(* row disappears.                                                        *)
PermittedTransitions ==
    {<<Pending_Rip, Ripping>>, <<Ripping, Pending_Encode>>, <<Ripping, Error>>,
     <<Pending_Encode, Encoding>>, <<Encoding, Finished>>, <<Encoding, Error>>}

C2_PermittedTransitions ==
    [][/\ Len(table') >= Len(table)
       /\ \A row_id \in RowIds :
             table'[row_id].encode_status # table[row_id].encode_status
             => <<table[row_id].encode_status, table'[row_id].encode_status>>
                   \in PermittedTransitions]_vars

C2_Witness ==
    \E row_id \in RowIds :
        h_jobs[row_id].entries = <<Pending_Rip, Ripping, Pending_Encode, Encoding, Finished>>

(* C3: the rip operation and the encode operation are each invoked at     *)
(* most once per item, and no item enters the same status twice.          *)
C3_ExactlyOnce ==
    \A row_id \in RowIds :
        /\ h_jobs[row_id].rips <= 1
        /\ h_jobs[row_id].encs <= 1
        /\ NoDuplicates(h_jobs[row_id].entries)

C3_Witness ==
    /\ Len(table) = 2
    /\ \A row_id \in RowIds :
          /\ h_jobs[row_id].rips = 1
          /\ h_jobs[row_id].encs = 1
          /\ Status(row_id) = Finished

(* C4: an item whose external encoder process failed (could not be        *)
(* started, or exited abnormally) is never recorded as Finished, and once *)
(* the encode worker is done with it its status is Error.                 *)
C4_EncodeFailureIsError ==
    \A row_id \in RowIds :
        h_jobs[row_id].enc_failed
        => /\ Finished \notin Range(h_jobs[row_id].entries)
           /\ ~EncHandling(row_id) => Status(row_id) = Error

(* C5: an item whose rip operation failed has status Error once the rip   *)
(* worker is done with it.                                                *)
C5_RipFailureIsError ==
    \A row_id \in RowIds :
        (h_jobs[row_id].rip_failed /\ ~RipHandling(row_id)) => Status(row_id) = Error

(* C6: an item whose rip operation failed never reaches Pending_Encode    *)
(* and is never claimed or encoded by the encode worker; when it is the   *)
(* only item, no item is in Pending_Encode.                               *)
C6_FailedRipNeverEncoded ==
    /\ \A row_id \in RowIds :
          h_jobs[row_id].rip_failed
          => /\ Range(h_jobs[row_id].entries) \cap {Pending_Encode, Encoding, Finished} = {}
             /\ h_jobs[row_id].encs = 0
             /\ enc.row_id # row_id
    /\ (Len(table) = 1 /\ h_jobs[1].rip_failed) => get_with_status(Pending_Encode) = <<>>

C6_Witness ==
    /\ Len(table) = 1
    /\ h_jobs[1].rip_failed
    /\ enc.pc = "get_work"

(* C7: after the external operation of one job has failed, a worker keeps *)
(* running: an item that is pending for a stage whose wake signal is set  *)
(* is eventually claimed (or the signal is cleared by set_enabled).       *)
IsPending(row_id, pending_status) ==
    row_id \in RowIds /\ Status(row_id) = pending_status

C7_WorkerKeepsRunning ==
    \A row_id \in 1..MaxJobs :
        /\ (SomeFailure /\ IsPending(row_id, Pending_Rip) /\ rip_ready)
              ~> (~IsPending(row_id, Pending_Rip) \/ ~rip_ready \/ h_storeFault # {})
        /\ (SomeFailure /\ IsPending(row_id, Pending_Encode) /\ encode_ready)
              ~> (~IsPending(row_id, Pending_Encode) \/ ~encode_ready
                  \/ h_storeFault # {})

(* C8: between a set_enabled(False) call and the next set_enabled(True)   *)
(* no item moves from Pending_Rip to Ripping or from Pending_Encode to    *)
(* Encoding.                                                              *)
C8_NoClaimWhileDisabled ==
    [][(h_lastSetEnabled = "False" /\ h_lastSetEnabled' = "False")
       => \A row_id \in RowIds :
             /\ ~(table[row_id].encode_status = Pending_Rip
                  /\ table'[row_id].encode_status = Ripping)
             /\ ~(table[row_id].encode_status = Pending_Encode
                  /\ table'[row_id].encode_status = Encoding)]_vars

(* C9: the store session of an enqueue call for a file name that already  *)
(* has an item leaves the store as it was (status, output path, title     *)
(* number and media of every row), with one item per file name.           *)
OneItemPerIdentity(tbl, lk) ==
    /\ \A f \in DOMAIN lk : lk[f] \in 1..Len(tbl)
    /\ \A row_id \in 1..Len(tbl) : Cardinality({f \in DOMAIN lk : lk[f] = row_id}) = 1

C9_DuplicateEnqueueIsNoOp ==
    [][(/\ caller.pc = "idle"
        /\ caller'.pc = "display"
        /\ caller'.media.file_name \in DOMAIN lookup)
       => /\ table' = table
          /\ lookup' = lookup
          /\ OneItemPerIdentity(table', lookup')]_vars

(* A second call with the other do_rip value for an item already Finished. *)
C9_Witness ==
    /\ caller.pc = "signal"
    /\ caller.media.file_name \in DOMAIN h_submitted
    /\ h_submitted[caller.media.file_name] # caller.do_rip
    /\ Status(lookup[caller.media.file_name]) = Finished

(* C10: until set_enabled(True) is first called, the store holds exactly  *)
(* one item per file name submitted to enqueue, with status Pending_Rip   *)
(* where the first call for it had do_rip true and Pending_Encode where   *)
(* it had do_rip false.                                                   *)
C10_InitialStatus ==
    ~h_everEnabled
    => /\ DOMAIN lookup = DOMAIN h_submitted
       /\ OneItemPerIdentity(table, lookup)
       /\ \A f \in DOMAIN h_submitted :
             /\ table[lookup[f]].media.file_name = f
             /\ Status(lookup[f]) = IF h_submitted[f] THEN Pending_Rip ELSE Pending_Encode

C10_Witness ==
    /\ ~h_everEnabled
    /\ Len(table) = 2
    /\ Status(1) = Pending_Rip
    /\ Status(2) = Pending_Encode

-----------------------------------------------------------------------------
(* C11 as stated: whenever a worker writes the in-progress status of an   *)
(* item, no earlier-inserted item is in the stage's pending status.       *)
C11_EarliestWhenClaimed ==
    [][\A row_id \in RowIds :
          /\ (table[row_id].encode_status = Pending_Rip
              /\ table'[row_id].encode_status = Ripping)
             => \A earlier \in 1..(row_id - 1) :
                   table[earlier].encode_status # Pending_Rip
          /\ (table[row_id].encode_status = Pending_Encode
              /\ table'[row_id].encode_status = Encoding)
             => \A earlier \in 1..(row_id - 1) :
                   table[earlier].encode_status # Pending_Encode]_vars

(* C11 amended: the item a worker selects in get_work is the              *)
(* earliest-inserted among those in the stage's pending status when it    *)
(* queries the store, and that is the item whose in-progress status it    *)
(* then writes; for the rip worker the item is still the earliest         *)
(* Pending_Rip item when Ripping is written.                              *)
C11_EarliestWhenQueried ==
    [][/\ (rip.pc = "get_work" /\ rip'.pc = "claim")
          => /\ IsPending(rip'.row_id, Pending_Rip)
             /\ \A earlier \in 1..(rip'.row_id - 1) : Status(earlier) # Pending_Rip
       /\ (enc.pc = "get_work" /\ enc'.pc = "claim")
          => /\ IsPending(enc'.row_id, Pending_Encode)
             /\ \A earlier \in 1..(enc'.row_id - 1) : Status(earlier) # Pending_Encode
       /\ \A row_id \in RowIds :
             /\ (table[row_id].encode_status = Pending_Rip
                 /\ table'[row_id].encode_status = Ripping)
                => /\ rip.pc = "claim" /\ rip.row_id = row_id
                   /\ \A earlier \in 1..(row_id - 1) :
                         table[earlier].encode_status # Pending_Rip
             /\ (table[row_id].encode_status = Pending_Encode
                 /\ table'[row_id].encode_status = Encoding)
                => (enc.pc = "claim" /\ enc.row_id = row_id)]_vars

(* The rip worker has selected the first of two Pending_Rip items. *)
C11_Witness ==
    /\ Len(table) >= 2
    /\ Status(1) = Pending_Rip
    /\ Status(2) = Pending_Rip
    /\ rip.pc = "claim"
    /\ rip.row_id = 1

(* C12: an item the rip worker has ripped and set to Pending_Encode is,   *)
(* the dispatcher staying enabled and the encode worker running, claimed  *)
(* by the encode worker eventually.                                       *)
C12_HandoffClaimed ==
    \A row_id \in 1..MaxJobs :
        (IsPending(row_id, Pending_Encode) /\ h_jobs[row_id].rips = 1 /\ enabled)
           ~> (~IsPending(row_id, Pending_Encode) \/ ~enabled \/ enc.pc = "dead")

(* C13: under RestartLiveSpec, a row the store held in Pending_Rip or      *)
(* Pending_Encode when WorkQueue was constructed is, once the dispatcher  *)
(* is enabled and while no enqueue call is made, eventually claimed by    *)
(* its stage's worker.                                                    *)
C13_LeftoverRestarted ==
    \A row_id \in 1..MaxJobs :
        (/\ row_id \in h_leftover
         /\ enabled
         /\ h_submitted = <<>>
         /\ Len(h_jobs[row_id].entries) = 1
         /\ IsPending(row_id, Pending_Rip) \/ IsPending(row_id, Pending_Encode))
           ~> (\/ ~(IsPending(row_id, Pending_Rip) \/ IsPending(row_id, Pending_Encode))
               \/ ~enabled
               \/ h_submitted # <<>>
               \/ rip.pc = "dead"
               \/ enc.pc = "dead")

C15_EnableDrainsPendingEncode ==
    \A row_id \in 1..MaxJobs :
        (/\ enabled
         /\ encode_ready
         /\ caller.pc = "idle"
         /\ IsPending(row_id, Pending_Encode))
           ~> (\/ row_id \in RowIds /\ Status(row_id) \in {Finished, Error}
               \/ ~enabled
               \/ caller.pc # "idle"
               \/ enc.pc = "dead")

(* C17 as stated: the signal step of an enqueue call that found an item   *)
(* of the same file name changes neither rip_ready nor encode_ready.      *)
C17_DuplicateSetsNoSignal ==
    [][(caller.pc = "signal" /\ caller'.pc = "idle" /\ h_duplicate)
       => (rip_ready' = rip_ready /\ encode_ready' = encode_ready)]_vars

(* C17 amended: an enqueue call that found an item of the same file name  *)
(* leaves the store unchanged and, when the dispatcher is disabled, both  *)
(* signals unchanged; when the dispatcher is enabled it sets rip_ready    *)
(* (do_rip true) or encode_ready (do_rip false) and leaves the other      *)
(* signal unchanged.                                                      *)
C17_DuplicateSignalsWhenEnabled ==
    [][(caller.pc = "signal" /\ caller'.pc = "idle" /\ h_duplicate)
       => /\ table' = table
          /\ lookup' = lookup
          /\ ~enabled => (rip_ready' = rip_ready /\ encode_ready' = encode_ready)
          /\ (enabled /\ caller.do_rip)
                => (rip_ready' /\ encode_ready' = encode_ready)
          /\ (enabled /\ ~caller.do_rip)
                => (encode_ready' /\ rip_ready' = rip_ready)]_vars

(* A duplicate call with do_rip true has finished its store session while *)
(* the dispatcher is enabled and rip_ready is clear: its signal step sets *)
(* rip_ready.                                                             *)
C17_Witness ==
    /\ caller.pc = "signal"
    /\ h_duplicate
    /\ enabled
    /\ caller.do_rip
    /\ ~rip_ready
    /\ table # <<>>

(* C20: under RestartSpec, the list restart_incomplete_jobs collected at  *)
(* construction holds exactly the rows whose status was below Finished    *)
(* at that moment.                                                        *)
C20_IncompleteQueryIsComplete ==
    Range(incomplete) = {row_id \in h_leftover : h_jobs[row_id].entries[1] < Finished}

(* C19: a worker that met a store fault in one of its store sessions has  *)
(* not terminated.                                                        *)
C19_WorkerSurvivesStoreFault ==
    /\ "rip" \in h_storeFault => rip.pc # "dead"
    /\ "enc" \in h_storeFault => enc.pc # "dead"

(* The displays an event is delivered to: one delivery per connection of  *)
(* the emitting thread's signal.  The rip worker emits progress events    *)
(* during save_to_file (progress_callback=self.progress_change.emit) and  *)
(* the Pending_Encode status event before it sets encode_ready; the       *)
(* encode worker emits during encode() when getDisplay found a display    *)
(* for the item, which is then among its connections.                     *)
RipDelivered ==
    IF rip.pc \in {"save_to_file", "signal"} THEN connections.rip ELSE EmptyBag

EncDelivered ==
    IF enc.pc = "encode" /\ BagIn(table[enc.row_id].media.media_name, connections.enc)
    THEN connections.enc
    ELSE EmptyBag

OnlyOnceTo(delivered, media_name) ==
    \A display \in BagToSet(delivered) :
        display = media_name /\ CopiesIn(display, delivered) = 1

(* C16: an event a worker emits while it processes an item is delivered   *)
(* to no display other than the one registered under the item's media     *)
(* name, and to that one once.                                            *)
C16_EventsOnlyToOwnDisplay ==
    /\ rip.pc \in {"save_to_file", "signal"}
          => OnlyOnceTo(RipDelivered, rip.media.media_name)
    /\ enc.pc = "encode"
          => OnlyOnceTo(EncDelivered, table[enc.row_id].media.media_name)

(* C18: under StoreSpec, add_entry for a file name that is present raises  *)
(* the uniqueness error at its second INSERT without changing the         *)
(* committed store, and when the session that raised is left the row its  *)
(* first INSERT wrote is discarded: the committed store, which is what    *)
(* every query sees, never holds a row without its lookup row.            *)
C18_DuplicateAddEntryLeavesStore ==
    [][/\ \A client \in Clients :
             /\ (/\ sessions[client].pc = "insert_lookup"
                 /\ sessions[client].call.media.file_name \in DOMAIN lookup
                 /\ sessions'[client] # sessions[client])
                => /\ sessions'[client].pc = "raised"
                   /\ table' = table
                   /\ lookup' = lookup
             /\ (sessions[client].pc = "raised" /\ sessions'[client] # sessions[client])
                => /\ sessions'[client] = SessionClosed
                   /\ table' = table
                   /\ lookup' = lookup
       /\ OneItemPerIdentity(table', lookup')]_vars

(* A session has raised in add_entry with the row of its first INSERT     *)
(* uncommitted, the file name being in the store.                         *)
C18_Witness ==
    \E client \in Clients :
        /\ sessions[client].pc = "raised"
        /\ Len(sessions[client].pending) = 1
        /\ sessions[client].call.media.file_name \in DOMAIN lookup
        /\ Len(table) = 1

-----------------------------------------------------------------------------
(* C23: no step removes an item (the rows and the lookup entries only     *)
(* grow and keep their row ids), and a row whose status is Finished or    *)
(* Error keeps that status in every later state.                          *)
C23_NoRemovalTerminalFrozen ==
    [][/\ Len(table') >= Len(table)
       /\ \A file_name \in DOMAIN lookup :
             file_name \in DOMAIN lookup' /\ lookup'[file_name] = lookup[file_name]
       /\ \A row_id \in RowIds :
             /\ table'[row_id].id = table[row_id].id
             /\ Status(row_id) \in {Finished, Error}
                => table'[row_id].encode_status = Status(row_id)]_vars

(* One item is Finished and the workers have gone on to the next one.     *)
C23_Witness ==
    /\ Len(table) = 2
    /\ Status(1) = Finished
    /\ Status(2) = Encoding
    /\ h_jobs[2].entries = <<Pending_Rip, Ripping, Pending_Encode, Encoding>>

(* C27: when the dispatcher is enabled whenever the store holds an item   *)
(* (so that every enqueue call inserts and signals while enabled), an     *)
(* item that enqueue has inserted, once the call has returned, is         *)
(* eventually claimed by the worker of its stage (or that worker has died *)
(* of a failed job or a store fault).                                     *)
C27_NoLostWakeup ==
    [](table # <<>> => enabled)
    => \A row_id \in 1..MaxJobs :
          /\ (/\ IsPending(row_id, Pending_Rip)
              /\ caller.pc = "idle")
                ~> (~IsPending(row_id, Pending_Rip) \/ rip.pc = "dead")
          /\ (/\ IsPending(row_id, Pending_Encode)
              /\ Len(h_jobs[row_id].entries) = 1
              /\ caller.pc = "idle")
                ~> (~IsPending(row_id, Pending_Encode) \/ enc.pc = "dead")

(* C28: under StoreSpec, where two threads run enqueue's store session at *)
(* the same time, the store holds one item per file name and no session   *)
(* raises an error.                                                       *)
C28_ConcurrentEnqueueOneItemNoError ==
    /\ OneItemPerIdentity(table, lookup)
    /\ \A client \in Clients : sessions[client].pc # "raised"

(* C29: a worker clears its own wake signal only in the step that follows *)
(* a query that found no pending item; a query that finds pending items   *)
(* leads to the claim of the earliest one, and no other step of the       *)
(* worker clears its signal, so the signal stays set from one job to the  *)
(* next.                                                                  *)
C29_ClearsOnlyAfterEmptyQuery ==
    [][/\ (rip.pc = "get_work" /\ rip'.pc = "clear")
             => get_with_status(Pending_Rip) = <<>>
       /\ (rip.pc = "get_work" /\ rip' # rip /\ get_with_status(Pending_Rip) # <<>>)
             => \/ rip'.pc = "dead"
                \/ rip'.pc = "claim" /\ rip'.row_id = get_with_status(Pending_Rip)[1]
       /\ (rip' # rip /\ rip_ready /\ ~rip_ready') => rip.pc = "clear"
       /\ (enc.pc = "get_work" /\ enc'.pc = "clear")
             => get_with_status(Pending_Encode) = <<>>
       /\ (enc.pc = "get_work" /\ enc' # enc /\ get_with_status(Pending_Encode) # <<>>)
             => \/ enc'.pc = "dead"
                \/ enc'.pc = "claim" /\ enc'.row_id = get_with_status(Pending_Encode)[1]
       /\ (enc' # enc /\ encode_ready /\ ~encode_ready') => enc.pc = "clear"]_vars

(* Two items were enqueued as Pending_Encode, the encode worker has       *)
(* encoded both, its wake signal is still set and its query has just      *)
(* found nothing.                                                         *)
C29_Witness ==
    /\ Len(table) = 2
    /\ \A row_id \in RowIds :
          /\ h_jobs[row_id].entries = <<Pending_Encode, Encoding, Finished>>
          /\ h_jobs[row_id].encs = 1
    /\ encode_ready
    /\ enc.pc = "clear"

(* C30: until set_enabled(True) is first called, both wake signals are    *)
(* clear, both workers are blocked on them, and every item has the status *)
(* it was inserted with: no rip and no encode has been started.           *)
C30_NothingClaimedBeforeFirstEnable ==
    ~h_everEnabled
    => /\ ~rip_ready
       /\ ~encode_ready
       /\ rip = RipIdle
       /\ enc = EncIdle
       /\ \A row_id \in RowIds :
             /\ h_jobs[row_id].entries = <<Status(row_id)>>
             /\ h_jobs[row_id].rips = 0
             /\ h_jobs[row_id].encs = 0

(* Two items were enqueued and set_enabled(False) was called, all before  *)
(* any set_enabled(True).                                                 *)
C30_Witness ==
    /\ ~h_everEnabled
    /\ h_lastSetEnabled = "False"
    /\ Len(table) = 2
    /\ caller.pc = "idle"

(* C24: under HeadlessSpec, where the work queue and its workers were     *)
(* given no display list, no enqueue call and no worker raises an error:  *)
(* the display calls are skipped.                                         *)
C24_DisplayCallsSkipped == h_raised = {}

(* C25: under ApiSpec, a get_with_status or set_status call whose status  *)
(* argument is not an instance of EncodeStatus raises RuntimeError        *)
(* without having executed any SQL statement, and leaves the store as it  *)
(* was.                                                                   *)
C25_NonMemberStatusRejected ==
    [][(api.pc = "idle" /\ api'.pc # "idle" /\ api'.arg.class # "EncodeStatus")
       => /\ api'.pc = "RuntimeError"
          /\ api'.executed = 0
          /\ api'.rows = <<>>
          /\ table' = table
          /\ lookup' = lookup]_vars

(* set_status has been called with the integer 7 on a store that holds an *)
(* item, and has raised.                                                  *)
C25_Witness ==
    /\ api.pc = "RuntimeError"
    /\ api.op = "set_status"
    /\ api.arg = [class |-> "int", value |-> Finished + 2]
    /\ Len(table) = 1

(* C26: under ConstructSpec, constructing a WorkQueue never changes an    *)
(* item; it leaves a schema that is complete as it is; it changes the     *)
(* schema only when a table is missing; and a construction that follows   *)
(* another one on the same store changes nothing in the store.            *)
C26_ConstructionIdempotent ==
    [][queue' # queue
       => /\ table' = table
          /\ lookup' = lookup
          /\ schema = Tables => schema' = schema
          /\ schema' # schema => Tables \ schema # {}
          /\ queue.constructions # "none" => schema' = schema]_vars

(* A WorkQueue was constructed on a store without schema and created it,  *)
(* two items were enqueued, and a WorkQueue was constructed again.        *)
C26_Witness ==
    /\ queue.constructions = "again"
    /\ queue.created
    /\ schema = Tables
    /\ Len(table) = 2

(* C21: under ProgressSpec, the events the relay emits are, in order, one *)
(* per carriage-return-terminated segment of the encoder's output that    *)
(* matches 'Encoding: task N of M, P.F %', carrying the integer P: while  *)
(* the relay reads, for the segments read so far, the list 'line' holding *)
(* the bytes read since the last carriage return; and when it has ended,  *)
(* for the segments of the whole output.                                  *)
RECURSIVE Relayed(_, _)
Relayed(bytes, segment) ==
    IF bytes = <<>> THEN <<>>
    ELSE IF Head(bytes) # CR THEN Relayed(Tail(bytes), Append(segment, Head(bytes)))
    ELSE (IF /\ "text" \in DOMAIN decode_ascii(segment)
             /\ re_search(segment) # None
          THEN <<int(re_search(segment).group1)>>
          ELSE <<>>) \o Relayed(Tail(bytes), <<>>)

RECURSIVE Unterminated(_)
Unterminated(bytes) ==
    IF bytes = <<>> \/ bytes[Len(bytes)] = CR THEN <<>>
    ELSE Append(Unterminated(SubSeq(bytes, 1, Len(bytes) - 1)), bytes[Len(bytes)])

C21_OneEventPerMatchingSegment ==
    /\ relay.pc = "read"
          => /\ progress = <<0>> \o Relayed(relay.h_read, <<>>)
             /\ relay.line = Unterminated(relay.h_read)
    /\ relay.pc \notin {"idle", "read"}
          => \E tail \in {<<>>, <<100>>} :
                progress = <<0>> \o Relayed(relay.h_read \o relay.stdout, <<>>) \o tail

(* C22: under ProgressSpec, every progress value delivered in the stage   *)
(* execution is an integer in 0..100 and no value is smaller than the one *)
(* delivered before it.                                                   *)
C22_ProgressBoundedMonotone ==
    \A i \in DOMAIN progress :
        /\ progress[i] \in 0..100
        /\ i > 1 => progress[i - 1] <= progress[i]

-----------------------------------------------------------------------------
(* C31: an item that has been in Ripping and is in Pending_Encode, or     *)
(* beyond it, has the image file as its source in the store: the row any  *)
(* query of the encode worker returns for it carries source_type 'file'   *)
(* and the file name of the rip's temp file.                              *)
C31_RippedItemHasImageSource ==
    \A row_id \in RowIds :
        (/\ Ripping \in Range(h_jobs[row_id].entries)
         /\ Status(row_id) \in {Pending_Encode, Encoding, Finished})
        => /\ table[row_id].media.source_type = "file"
           /\ table[row_id].media.file_name \in {"dvd_a.iso", "dvd_b.iso"}

(* A ripped item is in Pending_Encode while the encode worker runs its    *)
(* query.                                                                 *)
C31_Witness ==
    \E row_id \in RowIds :
        /\ h_jobs[row_id].entries = <<Pending_Rip, Ripping, Pending_Encode>>
        /\ enc.pc = "get_work"

-----------------------------------------------------------------------------
(* C37: a set_enabled call changes the enabled flag and the encode_ready  *)
(* signal and nothing else: the stored items, the name lookup, the        *)
(* rip_ready signal and the displays are as before.  A set_enabled step   *)
(* is the only step that moves neither the caller's enqueue nor a worker. *)
C37_SetEnabledFrame ==
    [][(caller' = caller /\ rip' = rip /\ enc' = enc)
       => /\ table' = table
          /\ lookup' = lookup
          /\ rip_ready' = rip_ready
          /\ display_mapping' = display_mapping
          /\ encode_ready' = enabled']_vars

(* set_enabled(False) has run while two items were stored, one of them in *)
(* progress, and rip_ready was set: rip_ready is still set.               *)
C37_Witness ==
    /\ h_lastSetEnabled = "False"
    /\ ~enabled
    /\ ~encode_ready
    /\ rip_ready
    /\ Len(table) = 2
    /\ \E row_id \in RowIds : Status(row_id) = Ripping

-----------------------------------------------------------------------------
(* C38: starting from a store without an item in Ripping or Encoding, at  *)
(* most one item is in Ripping and at most one is in Encoding in every    *)
(* reachable state, whatever the interleaving and also after a failed     *)
(* rip or encode.                                                         *)
C38_AtMostOneInProgressPerStage ==
    /\ Cardinality({row_id \in RowIds : Status(row_id) = Ripping}) <= 1
    /\ Cardinality({row_id \in RowIds : Status(row_id) = Encoding}) <= 1

(* The rip of one item has failed, the item is left in Ripping, while     *)
(* another item is in Encoding.                                           *)
C38_Witness ==
    \E ripped, encoded \in RowIds :
        /\ Status(ripped) = Ripping
        /\ h_jobs[ripped].rip_failed
        /\ Status(encoded) = Encoding

-----------------------------------------------------------------------------
(* C35: a flush of the rip-side ProgressWrapper whose text since the      *)
(* previous flush does not end with a percentage discards that text: no   *)
(* progress value is delivered, nothing is raised and the rip goes on.    *)
C35_FlushDiscardsSilently ==
    [][(/\ wrapper.pc = "rip"
        /\ wrapper.calls # <<>>
        /\ Head(wrapper.calls).op = "flush"
        /\ re_search_percent(wrapper.text) = None
        /\ wrapper' # wrapper)
       => /\ wrapper'.pc = "rip"
          /\ wrapper'.text = <<>>
          /\ progress' = progress
          /\ h_raised' = h_raised]_vars

-----------------------------------------------------------------------------
(* C36: verify_db answers True exactly when the three tables media_table, *)
(* media_lookup and encode_status all exist in the store file.            *)
C36_VerifiesAllThreeTables ==
    verify_db(schema) <=> (schema = Tables)

-----------------------------------------------------------------------------
(* C39: a step after which an item is in Stopped, without having been in  *)
(* Stopped before it, is an explicit disable, that is a set_enabled(False)*)
(* call: no claim, no recording step and no enqueue puts an item into     *)
(* Stopped.                                                               *)
C39_StoppedOnlyByExplicitDisable ==
    [][\A row_id \in 1..Len(table') :
          (/\ table'[row_id].encode_status = Stopped
           /\ (row_id \in RowIds => Status(row_id) # Stopped))
          => /\ caller' = caller /\ rip' = rip /\ enc' = enc
             /\ ~enabled']_vars

(* After a disable, the workers have claimed and recorded a ripped item   *)
(* through to Finished and claimed a second item enqueued meanwhile; no   *)
(* item is in Stopped.                                                    *)
C39_Witness ==
    /\ h_lastSetEnabled = "False"
    /\ Len(table) = 2
    /\ \E done, claimed \in RowIds :
          /\ h_jobs[done].entries =
                 <<Pending_Rip, Ripping, Pending_Encode, Encoding, Finished>>
          /\ Status(claimed) \in {Ripping, Encoding}
    /\ \A row_id \in RowIds : Stopped \notin Range(h_jobs[row_id].entries)

-----------------------------------------------------------------------------
(* C32: while a worker executes the external rip or encode operation it   *)
(* holds no open store session: the session of the claim is closed and    *)
(* released before the operation starts and no other session of the       *)
(* worker, opened before, is still open.                                  *)
C32_NoSessionDuringExternalOperation ==
    /\ rip.pc = "save_to_file"
           => db.rip = [get_work |-> "unbound", run |-> "unbound"]
    /\ enc.pc = "encode"
           => db.enc = [get_work |-> "unbound", run |-> "unbound"]

-----------------------------------------------------------------------------
(* C33: at most one display is ever created and registered for a media    *)
(* name, and the display a thread has obtained for a name, from enqueue's *)
(* creation or from a lookup, stays the one registered under that name:   *)
(* also when two threads run enqueue at once or a worker looks a display  *)
(* up meanwhile.                                                          *)
C33_OneDisplayPerNameNeverReplaced ==
    /\ \A media_name \in DisplayNames :
          Cardinality({display \in DOMAIN ui.displays :
                          ui.displays[display] = media_name}) <= 1
    /\ \A thread \in DisplayThreads :
          (threads[thread].pc = "idle" /\ threads[thread].display # NoDisplay)
          => DisplayList_getDisplay(threads[thread].media_name)
                 = threads[thread].display

-----------------------------------------------------------------------------
(* C34: a createDisplay call reaches its return statement only after the  *)
(* UI thread has created the display of this call and registered it under *)
(* the name; what it returns is the display registered under the name;    *)
(* and every call returns, on the UI thread and on any other thread,      *)
(* given that the UI thread keeps processing its events.                  *)
C34_CreateDisplayReturnsRegistered ==
    /\ [](\A thread \in DisplayThreads :
             threads[thread].pc = "return"
             => /\ threads[thread].h_created
                /\ DisplayList_getDisplay(threads[thread].media_name) # NoDisplay)
    /\ [][\A thread \in DisplayThreads :
             (threads[thread].pc = "return" /\ threads'[thread].pc = "idle")
             => /\ threads'[thread].display # NoDisplay
                /\ threads'[thread].display
                       = ui.display_mapping[threads[thread].media_name]]_vars
    /\ \A thread \in {"ui_thread", "other"} :
          (threads[thread].pc = "createDisplay") ~> (threads[thread].pc = "idle")

(* A thread other than the UI thread has returned from createDisplay with *)
(* the display the UI thread created for it, while the UI thread itself   *)
(* has returned from a call of its own.                                   *)
C34_Witness ==
    /\ threads["other"].pc = "idle"
    /\ threads["other"].h_created
    /\ threads["other"].display # NoDisplay
    /\ ui.displays[threads["other"].display] = threads["other"].media_name
    /\ threads["ui_thread"].pc = "idle"
    /\ threads["ui_thread"].h_created

=============================================================================
